---- MODULE Spec2Model ----
(***************************************************************************)
(* Model of the OpenAPI schema explorer: loadConfig, the startup load of  *)
(* the spec registry (SpecManagerService.loadSpecs, main), the resource   *)
(* handlers (top-level field, specs list, path item, operation, component *)
(* map, component detail), the completion callbacks, handler calls in     *)
(* progress at the same time, and the URI builders.                       *)
(*                                                                         *)
(* Strings are sequences of one-character strings, so that trimming,      *)
(* lower-casing, percent-encoding and slugification are computed          *)
(* character by character.  Fixed words of a URI or of a message          *)
(* ("openapi://", "paths", a message template) are single elements.       *)
(***************************************************************************)
EXTENDS Naturals, Sequences, FiniteSets, TLC

VARIABLES
  specPaths,   \* config.specPaths: the file paths handed to loadSpecs
  idx,         \* loadSpecs: number of loop iterations completed
  specs,       \* SpecManagerService.specs: the Map, in insertion order
  status,      \* main: "loading", "serving" (server connected), "exited"
  request,     \* the last request: handler name and its variables
  result,      \* what that request returned: thrown, contents, calls
  upath,       \* input of the URI functions: a decoded path string
  umethod,     \* input of the URI functions: a method string
  ubuilt,      \* last URI built from (upath, umethod) and its parse
  options,     \* main: the options handed to loadConfig
  config,      \* main: what loadConfig returned or threw
  specSlugs,   \* main: the slugs read once after the load (line 103)
  inflight,    \* the handler calls in progress, one per connection slot
  error        \* main: the error its catch block received (lines 325-331)

vars ==
  <<specPaths, idx, specs, status, request, result, upath, umethod, ubuilt,
    options, config, specSlugs, inflight, error>>

----------------------------------------------------------------------------
(* Bounds of the model *)

\* longest list of spec paths given on the command line
MaxSpecPaths == 2
\* longest array bound to an exploded variable ({method*}, {name*})
MaxList == 2
\* longest decoded path string fed to the URI functions
MaxPathLen == 3
\* number of handler calls that can be in progress at once
MaxCalls == 2

----------------------------------------------------------------------------
(* JavaScript string primitives *)

UpperCase == <<"A","B","C","D","E","F","G","H","I","J","K","L","M",
               "N","O","P","Q","R","S","T","U","V","W","X","Y","Z">>
LowerCase == <<"a","b","c","d","e","f","g","h","i","j","k","l","m",
               "n","o","p","q","r","s","t","u","v","w","x","y","z">>
Digits == {"0","1","2","3","4","5","6","7","8","9"}
WhiteSpace == {" ", "\t", "\n"}

Range(s) == {s[i] : i \in DOMAIN s}

\* String.prototype.toLowerCase on one character
LowerChar(c) ==
  IF c \in Range(UpperCase)
    THEN LowerCase[CHOOSE i \in DOMAIN UpperCase : UpperCase[i] = c]
    ELSE c

\* String.prototype.toLowerCase
ToLowerCase(s) == [i \in DOMAIN s |-> LowerChar(s[i])]

RECURSIVE TrimStart(_)
TrimStart(s) ==
  IF s # <<>> /\ Head(s) \in WhiteSpace THEN TrimStart(Tail(s)) ELSE s

RECURSIVE TrimEnd(_)
TrimEnd(s) ==
  IF s # <<>> /\ s[Len(s)] \in WhiteSpace
    THEN TrimEnd(SubSeq(s, 1, Len(s) - 1))
    ELSE s

\* String.prototype.trim
Trim(s) == TrimEnd(TrimStart(s))

\* Array.prototype.join
RECURSIVE Join(_, _)
Join(list, sep) ==
  IF list = <<>> THEN <<>>
  ELSE IF Len(list) = 1 THEN list[1]
  ELSE list[1] \o sep \o Join(Tail(list), sep)

\* String.prototype.split on a one-character separator
RECURSIVE Split(_, _)
Split(s, sep) ==
  IF \E i \in DOMAIN s : s[i] = sep
    THEN LET i == CHOOSE j \in DOMAIN s :
                    s[j] = sep /\ \A k \in 1..(j - 1) : s[k] # sep
         IN <<SubSeq(s, 1, i - 1)>> \o Split(SubSeq(s, i + 1, Len(s)), sep)
    ELSE <<s>>

\* String.prototype.startsWith / endsWith
StartsWith(s, prefix) ==
  Len(s) >= Len(prefix) /\ SubSeq(s, 1, Len(prefix)) = prefix

EndsWith(s, suffix) ==
  Len(s) >= Len(suffix) /\ SubSeq(s, Len(s) - Len(suffix) + 1, Len(s)) = suffix

----------------------------------------------------------------------------
(* slugify, src/services/spec-manager.ts *)

\* \w of a JavaScript regular expression
WordChars == Range(UpperCase) \cup Range(LowerCase) \cup Digits \cup {"_"}

SlugKeep(c) == c \in WordChars \/ c \in WhiteSpace \/ c = "-"

\* .replace(/[\s_]+/g, '-') followed by .replace(/-+/g, '-'): every run of
\* whitespace, underscores and hyphens that the first replace leaves as
\* hyphens is collapsed by the second into one hyphen
RECURSIVE CollapseSeparators(_)
CollapseSeparators(s) ==
  IF s = <<>> THEN <<>>
  ELSE IF Head(s) \in WhiteSpace \cup {"_", "-"}
    THEN IF Len(s) > 1 /\ s[2] \in WhiteSpace \cup {"_", "-"}
           THEN CollapseSeparators(Tail(s))
           ELSE <<"-">> \o CollapseSeparators(Tail(s))
    ELSE <<Head(s)>> \o CollapseSeparators(Tail(s))

\* .replace(/^-+|-+$/g, '')
RECURSIVE StripHyphens(_)
StripHyphens(s) ==
  IF s # <<>> /\ Head(s) = "-" THEN StripHyphens(Tail(s))
  ELSE IF s # <<>> /\ s[Len(s)] = "-" THEN StripHyphens(SubSeq(s, 1, Len(s) - 1))
  ELSE s

slugify(text) ==
  StripHyphens(CollapseSeparators(SelectSeq(Trim(ToLowerCase(text)), SlugKeep)))

----------------------------------------------------------------------------
(* encodeURIComponent and decodeURIComponent *)

\* the grave accent, code 96 (written by its code: the literal character
\* opens a quotation for the parser)
Backtick == "\\x60"

\* the printable ASCII characters, code 32 (space) to 126 (~), in order
Ascii ==
  <<" ","!","\"","#","$","%","&","'","(",")","*","+",",","-",".","/",
    "0","1","2","3","4","5","6","7","8","9",":",";","<","=",">","?",
    "@","A","B","C","D","E","F","G","H","I","J","K","L","M","N","O",
    "P","Q","R","S","T","U","V","W","X","Y","Z","[","\\","]","^","_",
    Backtick,"a","b","c","d","e","f","g","h","i","j","k","l","m","n","o",
    "p","q","r","s","t","u","v","w","x","y","z","{","|","}","~">>

HexDigits == <<"0","1","2","3","4","5","6","7","8","9","A","B","C","D","E","F">>

\* a lone UTF-16 surrogate (one code unit of a JavaScript string)
LoneSurrogate == "\\uD800"

\* the characters encodeURIComponent leaves as they are
Unreserved ==
  Range(UpperCase) \cup Range(LowerCase) \cup Digits
    \cup {"-", "_", ".", "!", "~", "*", "'", "(", ")"}

CharCode(c) == 31 + (CHOOSE i \in DOMAIN Ascii : Ascii[i] = c)

\* encodeURIComponent: thrown is TRUE for the URIError of a lone surrogate
RECURSIVE encodeURIComponent(_)
encodeURIComponent(s) ==
  IF s = <<>> THEN [thrown |-> FALSE, value |-> <<>>]
  ELSE IF Head(s) \notin Range(Ascii) THEN [thrown |-> TRUE, value |-> <<>>]
  ELSE LET rest == encodeURIComponent(Tail(s))
           c == Head(s)
           enc == IF c \in Unreserved THEN <<c>>
                  ELSE << "%", HexDigits[(CharCode(c) \div 16) + 1],
                               HexDigits[(CharCode(c) % 16) + 1] >>
       IN IF rest.thrown THEN rest
          ELSE [thrown |-> FALSE, value |-> enc \o rest.value]

IsHex(c) == c \in Range(HexDigits) \cup {"a","b","c","d","e","f"}

HexValue(c) ==
  LET u == IF c \in {"a","b","c","d","e","f"}
             THEN UpperCase[CHOOSE i \in DOMAIN LowerCase : LowerCase[i] = c]
             ELSE c
  IN (CHOOSE i \in DOMAIN HexDigits : HexDigits[i] = u) - 1

\* decodeURIComponent: thrown is TRUE for the URIError of a malformed
\* escape.  A byte of 128 or more starts a multi-byte sequence; the strings
\* of this model hold no complete one, so such an escape is malformed.
RECURSIVE decodeURIComponent(_)
decodeURIComponent(s) ==
  IF s = <<>> THEN [thrown |-> FALSE, value |-> <<>>]
  ELSE IF Head(s) # "%"
    THEN LET rest == decodeURIComponent(Tail(s))
         IN IF rest.thrown THEN rest
            ELSE [thrown |-> FALSE, value |-> <<Head(s)>> \o rest.value]
  ELSE IF Len(s) < 3 \/ ~IsHex(s[2]) \/ ~IsHex(s[3])
    THEN [thrown |-> TRUE, value |-> <<>>]
  ELSE LET byte == 16 * HexValue(s[2]) + HexValue(s[3])
           rest == decodeURIComponent(SubSeq(s, 4, Len(s)))
       IN IF byte >= 128 THEN [thrown |-> TRUE, value |-> <<>>]
          ELSE IF rest.thrown THEN rest
          ELSE [thrown |-> FALSE,
                value |-> << IF byte >= 32 /\ byte <= 126
                               THEN Ascii[byte - 31]
                               ELSE "\\x" \o ToString(byte) >> \o rest.value]

----------------------------------------------------------------------------
(* The URI builders, utils/uri-builder.ts (src/unnamed/part_003) *)

BASE_URI_SCHEME == <<"openapi://">>

\* path.replace(/^\/+/, '')
RECURSIVE StripLeadingSlashes(_)
StripLeadingSlashes(path) ==
  IF path # <<>> /\ Head(path) = "/" THEN StripLeadingSlashes(Tail(path)) ELSE path

\* a variant of encodeUriPathComponent that keeps the leading slashes
encodeUriPathComponent_KeepSlashes(path) == encodeURIComponent(path)

encodeUriPathComponent(path) == encodeURIComponent(StripLeadingSlashes(path))

\* value prefixed when the encoding did not throw
Prefixed(prefix, enc, suffix) ==
  IF enc.thrown THEN enc
  ELSE [thrown |-> FALSE, value |-> prefix \o enc.value \o suffix]

buildComponentDetailUri(specId, type, name) ==
  BASE_URI_SCHEME \o specId \o <<"/", "components", "/">> \o type \o <<"/">> \o name

buildComponentMapUri(specId, type) ==
  BASE_URI_SCHEME \o specId \o <<"/", "components", "/">> \o type

buildOperationUri(specId, path, method) ==
  Prefixed(BASE_URI_SCHEME \o specId \o <<"/", "paths", "/">>,
           encodeUriPathComponent(path),
           <<"/">> \o ToLowerCase(method))

buildPathItemUri(specId, path) ==
  Prefixed(BASE_URI_SCHEME \o specId \o <<"/", "paths", "/">>,
           encodeUriPathComponent(path), <<>>)

buildTopLevelFieldUri(specId, field) == BASE_URI_SCHEME \o specId \o <<"/">> \o field

buildComponentDetailUriSuffix(type, name) ==
  <<"components", "/">> \o type \o <<"/">> \o name

buildComponentMapUriSuffix(type) == <<"components", "/">> \o type

\* a variant of buildOperationUriSuffix that leaves the method out
buildOperationUriSuffix_NoMethod(path, method) ==
  Prefixed(<<"paths", "/">>, encodeUriPathComponent(path), <<>>)

buildOperationUriSuffix(path, method) ==
  Prefixed(<<"paths", "/">>, encodeUriPathComponent(path),
           <<"/">> \o ToLowerCase(method))

buildPathItemUriSuffix(path) ==
  Prefixed(<<"paths", "/">>, encodeUriPathComponent(path), <<>>)

----------------------------------------------------------------------------
(* Words used by documents and requests *)

GET == <<"g","e","t">>
POST == <<"p","o","s","t">>
PUT == <<"p","u","t">>
DELETE == <<"d","e","l","e","t","e">>
PATCH == <<"p","a","t","c","h">>
OPTIONS == <<"o","p","t","i","o","n","s">>
HEAD == <<"h","e","a","d">>
TRACE == <<"t","r","a","c","e">>

PathA == <<"/","a">>
PathAB == <<"/","a","/","{","b","}">>
PathB == <<"/","b">>

NameTask == <<"T","a","s","k">>
NameUser == <<"U","s","e","r">>

----------------------------------------------------------------------------
(* The files the command line can name, and what SpecLoaderService makes   *)
(* of each (services/spec-loader.ts).                                      *)

FileA == <<"a",".","j","s","o","n">>
FileB == <<"d","/","b",".","y","a","m","l">>
FileC == <<"c",".","y","m","l">>
FileP == <<"p",".","j","s","o","n">>
FileV2 == <<"v","2",".","j","s","o","n">>
FileE == <<"s","/","_",".","Y","A","M","L">>

Files == {FileA, FileB, FileC, FileP, FileV2, FileE}

\* "Demo API": two paths (one with its keys inserted post before get, one
\* with a key that is no method), two schemas and an empty examples map
DocA ==
  [ v3 |-> TRUE,
    title |-> <<"D","e","m","o"," ","A","P","I">>,
    description |-> <<"d">>,
    version |-> <<"1">>,
    paths |-> << [path |-> PathA,
                  item |-> << [key |-> POST, op |-> "createA"],
                              [key |-> GET, op |-> "listA"] >>],
                 [path |-> PathAB,
                  item |-> << [key |-> <<"parameters">>, op |-> "paramsB"],
                              [key |-> GET, op |-> "getB"] >>] >>,
    hasComponents |-> TRUE,
    components |-> << [type |-> <<"schemas">>,
                       map |-> << [name |-> NameTask, obj |-> "TaskSchema"],
                                  [name |-> NameUser, obj |-> "UserSchema"] >>],
                      [type |-> <<"examples">>, map |-> <<>>] >> ]

\* "demo_api": slugifies like "Demo API"
DocB ==
  [ v3 |-> TRUE,
    title |-> <<"d","e","m","o","_","a","p","i">>,
    description |-> <<>>,
    version |-> <<"2">>,
    paths |-> << [path |-> PathB,
                  item |-> << [key |-> GET, op |-> "listB"] >>] >>,
    hasComponents |-> FALSE,
    components |-> <<>> ]

\* "Pets!": loads, but its references cannot be resolved
DocP ==
  [ v3 |-> TRUE,
    title |-> <<"P","e","t","s","!">>,
    description |-> <<>>,
    version |-> <<>>,
    paths |-> << [path |-> PathA,
                  item |-> << [key |-> GET, op |-> "listPets"] >>] >>,
    hasComponents |-> TRUE,
    components |-> << [type |-> <<"schemas">>,
                       map |-> << [name |-> NameTask, obj |-> "PetTask"] >>] >> ]

\* a Swagger 2.0 document without info.title
DocV2 ==
  [ v3 |-> FALSE,
    title |-> <<>>,
    description |-> <<>>,
    version |-> <<"2">>,
    paths |-> << [path |-> PathA,
                  item |-> << [key |-> GET, op |-> "listV2"] >>] >>,
    hasComponents |-> FALSE,
    components |-> <<>> ]

\* a title without any word character, no paths, one component category
DocE ==
  [ v3 |-> TRUE,
    title |-> <<"?","!">>,
    description |-> <<>>,
    version |-> <<>>,
    paths |-> <<>>,
    hasComponents |-> TRUE,
    components |-> << [type |-> <<"schemas">>,
                       map |-> << [name |-> NameUser, obj |-> "EUser"] >>] >> ]

\* loader.loadSpec() rejects: the file cannot be read or converted
LoadFails(filePath) == filePath = FileC

\* loader.getSpec(): the parsed document
RawSpec(filePath) ==
  CASE filePath = FileA -> DocA
    [] filePath = FileB -> DocB
    [] filePath = FileP -> DocP
    [] filePath = FileV2 -> DocV2
    [] OTHER -> DocE

\* loader.getTransformedSpec() rejects: a reference cannot be resolved
TransformFails(filePath) == filePath = FileP

\* the message of that rejection
TransformErrorMessage == <<"Spec load failed">>

\* the message of a rejected loader.loadSpec()
LoadErrorMessage == <<"Failed to load OpenAPI spec">>

\* loadSpecs, line 76
NoSpecsMessage == <<"No specs were loaded successfully.">>

\* loader.getTransformedSpec(): the dereferenced document
TransformedSpec(filePath) == RawSpec(filePath)

----------------------------------------------------------------------------
(* SpecManagerService, src/services/spec-manager.ts *)

\* a || b on strings: the empty string is falsy
OrElse(a, b) == IF a # <<>> THEN a ELSE b

\* filePath.split('/').pop()?.replace(/\.(json|yaml|yml)$/i, '') || 'api'
FileNameOf(filePath) ==
  LET last == Split(filePath, "/")[Len(Split(filePath, "/"))]
      low == ToLowerCase(last)
      ext == IF EndsWith(low, <<".","j","s","o","n">>) THEN 5
             ELSE IF EndsWith(low, <<".","y","a","m","l">>) THEN 5
             ELSE IF EndsWith(low, <<".","y","m","l">>) THEN 4
             ELSE 0
  IN OrElse(SubSeq(last, 1, Len(last) - ext), <<"a","p","i">>)

\* the slug loadSpecs derives for a document
SlugFor(filePath, title) ==
  IF slugify(title) # <<>> THEN slugify(title) ELSE slugify(FileNameOf(filePath))

\* this.specs.has(slug)
Has(reg, slug) == \E i \in DOMAIN reg : reg[i].slug = slug

\* a variant of the collision rule in which the last loaded wins
RegisterSpec_Overwrite(reg, entry) ==
  IF Has(reg, entry.slug)
    THEN [i \in DOMAIN reg |-> IF reg[i].slug = entry.slug THEN entry ELSE reg[i]]
    ELSE Append(reg, entry)

\* lines 57-72 of loadSpecs: first loaded wins on collision
RegisterSpec(reg, entry) ==
  IF Has(reg, entry.slug) THEN reg ELSE Append(reg, entry)

\* the LoadedSpec loadSpecs builds for the n-th file path
EntryFor(filePath, n) ==
  LET spec == RawSpec(filePath)
      title == OrElse(spec.title, <<"U","n","t","i","t","l","e","d"," ","A","P","I">>)
  IN [ slug |-> SlugFor(filePath, title),
       title |-> title,
       description |-> spec.description,
       version |-> spec.version,
       pathCount |-> Len(spec.paths),
       loader |-> [filePath |-> filePath, n |-> n] ]

getAllSpecs(reg) == reg

getSpecSlugs(reg) == [i \in DOMAIN reg |-> reg[i].slug]

\* a variant of getLoader that falls back to the first registered spec when
\* the slug is unknown
getLoader_FirstSpec(reg, slug) ==
  [thrown |-> FALSE,
   loader |-> IF Has(reg, slug)
                THEN reg[CHOOSE i \in DOMAIN reg : reg[i].slug = slug].loader
                ELSE reg[1].loader,
   message |-> <<>>]

\* getLoader: thrown is TRUE when the slug is unknown
getLoader(reg, slug) ==
  IF Has(reg, slug)
    THEN [thrown |-> FALSE,
          loader |-> reg[CHOOSE i \in DOMAIN reg : reg[i].slug = slug].loader,
          message |-> <<>>]
    ELSE [thrown |-> TRUE,
          loader |-> [filePath |-> <<>>, n |-> 0],
          message |-> <<"Spec \"">> \o slug \o <<"\" not found. Available: ">>
                      \o Join(getSpecSlugs(reg), <<",", " ">>)]

----------------------------------------------------------------------------
(* Validation and rendering helpers: handlers/handler-utils.ts,            *)
(* rendering/path-item.ts, rendering/components.ts                         *)

CanonicalMethods == <<GET, POST, PUT, DELETE, PATCH, OPTIONS, HEAD, TRACE>>

VALID_COMPONENT_TYPES ==
  { <<"schemas">>, <<"responses">>, <<"parameters">>, <<"examples">>,
    <<"requestBodies">>, <<"headers">>, <<"securitySchemes">>, <<"links">>,
    <<"callbacks">> }

isOpenAPIV3(spec) == spec.v3

Keys(item) == [i \in DOMAIN item |-> item[i].key]

IsDeclared(item, m) == m \in Range(Keys(item))

\* a variant of DeclaredMethods that reports the keys of the path item as
\* the document inserted them
DeclaredMethods_InsertionOrder(item) == Keys(item)

\* the declared methods of a path item, in canonical order
DeclaredMethods(item) ==
  SelectSeq(CanonicalMethods, LAMBDA m : IsDeclared(item, m))

OperationOf(item, m) == item[CHOOSE i \in DOMAIN item : item[i].key = m].op

HasPath(spec, path) == \E i \in DOMAIN spec.paths : spec.paths[i].path = path

getValidatedPathItem(spec, path) ==
  IF HasPath(spec, path)
    THEN [thrown |-> FALSE, message |-> <<>>,
          value |-> spec.paths[CHOOSE i \in DOMAIN spec.paths :
                                  spec.paths[i].path = path].item]
    ELSE [thrown |-> TRUE, value |-> <<>>,
          message |-> <<"Path \"">> \o path
                      \o <<"\" not found in the specification.">>]

\* the requested methods the path declares, in request order
getValidatedOperations(item, methods, path) ==
  LET valid == SelectSeq(methods, LAMBDA m : m \in Range(DeclaredMethods(item)))
  IN IF valid # <<>>
       THEN [thrown |-> FALSE, message |-> <<>>, value |-> valid]
       ELSE [thrown |-> TRUE, value |-> <<>>,
             message |-> <<"None of the requested methods (">>
                         \o Join(methods, <<",", " ">>)
                         \o <<") are valid for path \"">> \o path
                         \o <<"\". Available methods: ">>
                         \o Join(DeclaredMethods(item), <<",", " ">>)]

Types(spec) == [i \in DOMAIN spec.components |-> spec.components[i].type]

getValidatedComponentMap(spec, type) ==
  IF spec.hasComponents /\ type \in Range(Types(spec))
    THEN [thrown |-> FALSE, message |-> <<>>,
          value |-> spec.components[CHOOSE i \in DOMAIN spec.components :
                                       spec.components[i].type = type].map]
    ELSE [thrown |-> TRUE, value |-> <<>>,
          message |-> <<"Component type \"">> \o type
                      \o <<"\" not found in the specification. Available types: ">>
                      \o Join(Types(spec), <<",", " ">>)]

Names(map) == [i \in DOMAIN map |-> map[i].name]

ComponentOf(map, n) == map[CHOOSE i \in DOMAIN map : map[i].name = n].obj

\* the requested names that are keys of the component map, in request order
getValidatedComponentDetails(map, names, type) ==
  LET valid == SelectSeq(names, LAMBDA n : n \in Range(Names(map)))
  IN IF valid # <<>>
       THEN [thrown |-> FALSE, message |-> <<>>, value |-> valid]
       ELSE [thrown |-> TRUE, value |-> <<>>,
             message |-> <<"None of the requested names (">>
                         \o Join(names, <<",", " ">>)
                         \o <<") are valid for component type \"">> \o type
                         \o <<"\". Available names: ">>
                         \o Join(Names(map), <<",", " ">>)]

Null == <<"null">>

\* RenderablePathItem.renderOperationDetail: one detail item per method
renderOperationDetail(item, path, methods) ==
  [i \in DOMAIN methods |->
     [ uriSuffix |-> buildOperationUriSuffix(path, methods[i]).value,
       data |-> <<OperationOf(item, methods[i])>>,
       isError |-> FALSE, errorText |-> <<>>, renderAsList |-> FALSE ]]

\* RenderablePathItem.renderList: one list item, a line per declared method
PathItemRenderList(item, path, pathUriSuffix) ==
  << [ uriSuffix |-> pathUriSuffix,
       data |-> IF DeclaredMethods(item) = <<>>
                  THEN <<"No standard HTTP methods found for path: ">>
                       \o StripLeadingSlashes(path)
                  ELSE Join(DeclaredMethods(item), <<"\n">>),
       isError |-> FALSE, errorText |-> <<>>, renderAsList |-> TRUE ] >>

\* RenderableComponentMap.renderComponentDetail: one detail item per name
renderComponentDetail(map, type, names) ==
  [i \in DOMAIN names |->
     [ uriSuffix |-> buildComponentDetailUriSuffix(type, names[i]),
       data |-> <<ComponentOf(map, names[i])>>,
       isError |-> FALSE, errorText |-> <<>>, renderAsList |-> FALSE ]]

\* createErrorResult, src/rendering/utils.ts
createErrorResult(uriSuffix, message) ==
  << [ uriSuffix |-> uriSuffix,
       data |-> Null,
       isError |-> TRUE,
       errorText |-> message,
       renderAsList |-> TRUE ] >>

\* RenderableComponentMap.renderList: one list item, a line per name, or
\* the error of an empty map
ComponentMapRenderList(map, type, mapUriSuffix) ==
  IF map = <<>>
    THEN createErrorResult(mapUriSuffix,
           <<"No components of type \"">> \o type \o <<"\" found.">>)
    ELSE << [ uriSuffix |-> mapUriSuffix,
              data |-> Join(Names(map), <<"\n">>),
              isError |-> FALSE, errorText |-> <<>>, renderAsList |-> TRUE ] >>

BASE_URI == <<"openapi://">>

\* the MIME type of the active formatter (JsonFormatter)
FormatterMimeType == "application/json"

\* formatter.format(data)
Format(data) == <<"json(">> \o data \o <<")">>

\* formatResults: one FormattedResultItem per RenderResultItem
formatResults(specId, items) ==
  [i \in DOMAIN items |->
     [ uri |-> BASE_URI \o specId \o <<"/">> \o items[i].uriSuffix,
       mimeType |-> IF items[i].isError \/ items[i].renderAsList
                      THEN "text/plain" ELSE FormatterMimeType,
       text |-> IF items[i].isError THEN items[i].errorText
                ELSE IF items[i].renderAsList THEN items[i].data
                ELSE Format(items[i].data),
       isError |-> items[i].isError ]]

----------------------------------------------------------------------------
(* The resource handlers *)

\* a variable of the request: undefined, a string, or an array of strings
Undefined == [kind |-> "undefined", str |-> <<>>, arr |-> <<>>]
Str(s) == [kind |-> "string", str |-> s, arr |-> <<>>]
Arr(a) == [kind |-> "array", str |-> <<>>, arr |-> a]

\* JavaScript truthiness of such a variable: an array is always truthy
Truthy(v) == v.kind = "array" \/ (v.kind = "string" /\ v.str # <<>>)

\* what handleRequest returns (contents) or that it threw
Thrown == [thrown |-> TRUE, contents |-> <<>>, calls |-> <<>>]
Returned(contents, calls) ==
  [thrown |-> FALSE, contents |-> contents, calls |-> calls]

Failed(message, calls) ==
  [thrown |-> TRUE, message |-> message, items |-> <<>>, calls |-> calls]
Rendered(items, calls) ==
  [thrown |-> FALSE, message |-> <<>>, items |-> items, calls |-> calls]

\* getLoader, getTransformedSpec and the isOpenAPIV3 guard, as every
\* handler runs them (path-item-handler.ts, lines 51-60)
ResolveSpec(reg, specId) ==
  LET l == getLoader(reg, specId)
      filePath == l.loader.filePath
  IN IF l.thrown
       THEN [thrown |-> TRUE, message |-> l.message, spec |-> DocE,
             calls |-> <<"getLoader">>]
     ELSE IF TransformFails(filePath)
       THEN [thrown |-> TRUE, message |-> TransformErrorMessage, spec |-> DocE,
             calls |-> <<"getLoader", "getTransformedSpec">>]
     ELSE IF ~isOpenAPIV3(TransformedSpec(filePath))
       THEN [thrown |-> TRUE,
             message |-> <<"Only OpenAPI v3 specifications are supported">>,
             spec |-> DocE,
             calls |-> <<"getLoader", "getTransformedSpec">>]
     ELSE [thrown |-> FALSE, message |-> <<>>,
           spec |-> TransformedSpec(filePath),
           calls |-> <<"getLoader", "getTransformedSpec">>]

\* decodedPath.startsWith('/') ? decodedPath : `/${decodedPath}`
LookupPath(decodedPath) ==
  IF StartsWith(decodedPath, <<"/">>) THEN decodedPath ELSE <<"/">> \o decodedPath

\* PathItemHandler.handleRequest, the try block (lines 50-66)
PathItemTry(reg, specId, decodedPath, pathUriSuffix) ==
  LET r == ResolveSpec(reg, specId)
      lookupPath == LookupPath(decodedPath)
      pathItemObj == getValidatedPathItem(r.spec, lookupPath)
  IN IF r.thrown THEN Failed(r.message, r.calls)
     ELSE IF pathItemObj.thrown THEN Failed(pathItemObj.message, r.calls)
     ELSE Rendered(PathItemRenderList(pathItemObj.value, lookupPath, pathUriSuffix),
                   r.calls)

\* PathItemHandler.handleRequest.  decodeURIComponent and
\* buildPathItemUriSuffix run before the try block: what they throw leaves
\* handleRequest.
PathItemHandleRequest(reg, v) ==
  LET decoded == decodeURIComponent(v.path)
      suffix == buildPathItemUriSuffix(decoded.value)
      try == PathItemTry(reg, v.specId, decoded.value, suffix.value)
  IN IF decoded.thrown \/ suffix.thrown THEN Thrown
     ELSE Returned(formatResults(v.specId,
                     IF try.thrown
                       THEN createErrorResult(suffix.value, try.message)
                       ELSE try.items),
                   try.calls)

\* a variant of NormalizeMethods that trims without lower-casing
NormalizeMethods_KeepCase(methodVar) ==
  LET methods ==
        IF methodVar.kind = "array"
          THEN [i \in DOMAIN methodVar.arr |-> Trim(methodVar.arr[i])]
        ELSE IF methodVar.kind = "string"
          THEN <<Trim(methodVar.str)>>
        ELSE <<>>
  IN SelectSeq(methods, LAMBDA m : Len(m) > 0)

\* a variant of NormalizeMethods that returns the requested methods in
\* canonical order
NormalizeMethods_Sorted(methodVar) ==
  LET methods ==
        IF methodVar.kind = "array"
          THEN [i \in DOMAIN methodVar.arr |-> ToLowerCase(Trim(methodVar.arr[i]))]
        ELSE IF methodVar.kind = "string"
          THEN <<ToLowerCase(Trim(methodVar.str))>>
        ELSE <<>>
  IN SelectSeq(CanonicalMethods, LAMBDA m : m \in Range(methods))

\* a variant of NormalizeMethods that lower-cases without trimming
NormalizeMethods_NoTrim(methodVar) ==
  LET methods ==
        IF methodVar.kind = "array"
          THEN [i \in DOMAIN methodVar.arr |-> ToLowerCase(methodVar.arr[i])]
        ELSE IF methodVar.kind = "string"
          THEN <<ToLowerCase(methodVar.str)>>
        ELSE <<>>
  IN SelectSeq(methods, LAMBDA m : Len(m) > 0)

\* OperationHandler.handleRequest, lines 97-103 (src/test/.../config.test.ts)
NormalizeMethods(methodVar) ==
  LET methods ==
        IF methodVar.kind = "array"
          THEN [i \in DOMAIN methodVar.arr |-> ToLowerCase(Trim(methodVar.arr[i]))]
        ELSE IF methodVar.kind = "string"
          THEN <<ToLowerCase(Trim(methodVar.str))>>
        ELSE <<>>
  IN SelectSeq(methods, LAMBDA m : Len(m) > 0)

\* Array.isArray(x) ? x.join(',') : x
AsRequested(var) ==
  IF var.kind = "array" THEN Join(var.arr, <<",">>) ELSE var.str

\* the catch block's errorSuffix of the operation and component-detail
\* handlers
ErrorSuffix(baseSuffix, var) ==
  IF Truthy(var) THEN baseSuffix \o <<"/">> \o AsRequested(var) ELSE baseSuffix

\* a variant of OperationResolve that fails the whole request when one of
\* the requested methods is not declared
OperationResolve_AllOrNothing(spec, lookupPath, methods) ==
  LET pathItemObj == getValidatedPathItem(spec, lookupPath)
      validMethods == getValidatedOperations(pathItemObj.value, methods, lookupPath)
  IN IF pathItemObj.thrown THEN Failed(pathItemObj.message, <<>>)
     ELSE IF validMethods.thrown \/ validMethods.value # methods
       THEN Failed(<<"None of the requested methods (">>, <<>>)
     ELSE Rendered(renderOperationDetail(pathItemObj.value, lookupPath,
                                         validMethods.value), <<>>)

\* OperationHandler.handleRequest, lines 121-126: path lookup, method
\* partition, rendering
OperationResolve(spec, lookupPath, methods) ==
  LET pathItemObj == getValidatedPathItem(spec, lookupPath)
      validMethods == getValidatedOperations(pathItemObj.value, methods, lookupPath)
  IN IF pathItemObj.thrown THEN Failed(pathItemObj.message, <<>>)
     ELSE IF validMethods.thrown THEN Failed(validMethods.message, <<>>)
     ELSE Rendered(renderOperationDetail(pathItemObj.value, lookupPath,
                                         validMethods.value), <<>>)

\* a variant of the try block of OperationHandler.handleRequest that looks
\* the spec up before it checks that a method was named
OperationTry_LookupFirst(reg, specId, decodedPath, methodVar) ==
  LET methods == NormalizeMethods(methodVar)
      r == ResolveSpec(reg, specId)
      resolved == OperationResolve(r.spec, LookupPath(decodedPath), methods)
  IN IF r.thrown THEN Failed(r.message, r.calls)
     ELSE IF Len(methods) = 0
       THEN Failed(<<"No valid HTTP method specified.">>, r.calls)
     ELSE [resolved EXCEPT !.calls = r.calls]

\* OperationHandler.handleRequest, the try block (lines 96-126)
OperationTry(reg, specId, decodedPath, methodVar) ==
  LET methods == NormalizeMethods(methodVar)
      r == ResolveSpec(reg, specId)
      resolved == OperationResolve(r.spec, LookupPath(decodedPath), methods)
  IN IF Len(methods) = 0
       THEN Failed(<<"No valid HTTP method specified.">>, <<>>)
     ELSE IF r.thrown THEN Failed(r.message, r.calls)
     ELSE [resolved EXCEPT !.calls = r.calls]

\* OperationHandler.handleRequest
OperationHandleRequest(reg, v) ==
  LET decoded == decodeURIComponent(v.path)
      suffix == buildPathItemUriSuffix(decoded.value)
      try == OperationTry(reg, v.specId, decoded.value, v.method)
  IN IF decoded.thrown \/ suffix.thrown THEN Thrown
     ELSE Returned(formatResults(v.specId,
                     IF try.thrown
                       THEN createErrorResult(ErrorSuffix(suffix.value, v.method),
                                              try.message)
                       ELSE try.items),
                   try.calls)

\* a variant of ComponentMapTry that reports an empty component map as a
\* type that is not found
ComponentMapTry_Conflated(reg, specId, type, mapUriSuffix) ==
  LET r == ResolveSpec(reg, specId)
      componentMapObj == getValidatedComponentMap(r.spec, type)
  IN IF type \notin VALID_COMPONENT_TYPES
       THEN Failed(<<"Invalid component type: ">> \o type, <<>>)
     ELSE IF r.thrown THEN Failed(r.message, r.calls)
     ELSE IF componentMapObj.thrown \/ componentMapObj.value = <<>>
       THEN Failed(<<"Component type \"">> \o type
                     \o <<"\" not found in the specification. Available types: ">>
                     \o Join(Types(r.spec), <<",", " ">>),
                   r.calls)
     ELSE Rendered(ComponentMapRenderList(componentMapObj.value, type, mapUriSuffix),
                   r.calls)

\* ComponentMapHandler.handleRequest, the try block (lines 51-76)
ComponentMapTry(reg, specId, type, mapUriSuffix) ==
  LET r == ResolveSpec(reg, specId)
      componentMapObj == getValidatedComponentMap(r.spec, type)
  IN IF type \notin VALID_COMPONENT_TYPES
       THEN Failed(<<"Invalid component type: ">> \o type, <<>>)
     ELSE IF r.thrown THEN Failed(r.message, r.calls)
     ELSE IF componentMapObj.thrown THEN Failed(componentMapObj.message, r.calls)
     ELSE Rendered(ComponentMapRenderList(componentMapObj.value, type, mapUriSuffix),
                   r.calls)

\* ComponentMapHandler.handleRequest
ComponentMapHandleRequest(reg, v) ==
  LET mapUriSuffix == <<"components", "/">> \o v.type
      try == ComponentMapTry(reg, v.specId, v.type, mapUriSuffix)
  IN Returned(formatResults(v.specId,
                IF try.thrown
                  THEN createErrorResult(mapUriSuffix, try.message)
                  ELSE try.items),
              try.calls)

\* ComponentDetailHandler.handleRequest, lines 60-66
NormalizeNames(nameVar) ==
  LET names ==
        IF nameVar.kind = "array"
          THEN [i \in DOMAIN nameVar.arr |-> Trim(nameVar.arr[i])]
        ELSE IF nameVar.kind = "string"
          THEN <<Trim(nameVar.str)>>
        ELSE <<>>
  IN SelectSeq(names, LAMBDA n : Len(n) > 0)

\* a variant of ComponentDetailResolve that fails the whole request when
\* one of the requested names is not a key of the map
ComponentDetailResolve_AllOrNothing(spec, type, names) ==
  LET componentMapObj == getValidatedComponentMap(spec, type)
      validDetails == getValidatedComponentDetails(componentMapObj.value, names, type)
  IN IF componentMapObj.thrown THEN Failed(componentMapObj.message, <<>>)
     ELSE IF validDetails.thrown \/ validDetails.value # names
       THEN Failed(<<"None of the requested names (">>, <<>>)
     ELSE Rendered(renderComponentDetail(componentMapObj.value, type,
                                         validDetails.value), <<>>)

\* ComponentDetailHandler.handleRequest, lines 83-93: component map lookup,
\* name partition, rendering
ComponentDetailResolve(spec, type, names) ==
  LET componentMapObj == getValidatedComponentMap(spec, type)
      validDetails == getValidatedComponentDetails(componentMapObj.value, names, type)
  IN IF componentMapObj.thrown THEN Failed(componentMapObj.message, <<>>)
     ELSE IF validDetails.thrown THEN Failed(validDetails.message, <<>>)
     ELSE Rendered(renderComponentDetail(componentMapObj.value, type,
                                         validDetails.value), <<>>)

\* a variant of ComponentDetailTry that fetches the document before it
\* checks the component type
ComponentDetailTry_LoadFirst(reg, specId, type, nameVar) ==
  LET names == NormalizeNames(nameVar)
      r == ResolveSpec(reg, specId)
      resolved == ComponentDetailResolve(r.spec, type, names)
  IN IF Len(names) = 0
       THEN Failed(<<"No valid component name specified.">>, <<>>)
     ELSE IF r.thrown THEN Failed(r.message, r.calls)
     ELSE IF type \notin VALID_COMPONENT_TYPES
       THEN Failed(<<"Invalid component type: ">> \o type, r.calls)
     ELSE [resolved EXCEPT !.calls = r.calls]

\* ComponentDetailHandler.handleRequest, the try block (lines 54-93)
ComponentDetailTry(reg, specId, type, nameVar) ==
  LET names == NormalizeNames(nameVar)
      r == ResolveSpec(reg, specId)
      resolved == ComponentDetailResolve(r.spec, type, names)
  IN IF type \notin VALID_COMPONENT_TYPES
       THEN Failed(<<"Invalid component type: ">> \o type, <<>>)
     ELSE IF Len(names) = 0
       THEN Failed(<<"No valid component name specified.">>, <<>>)
     ELSE IF r.thrown THEN Failed(r.message, r.calls)
     ELSE [resolved EXCEPT !.calls = r.calls]

\* ComponentDetailHandler.handleRequest
ComponentDetailHandleRequest(reg, v) ==
  LET mapUriSuffix == <<"components", "/">> \o v.type
      try == ComponentDetailTry(reg, v.specId, v.type, v.name)
  IN Returned(formatResults(v.specId,
                IF try.thrown
                  THEN createErrorResult(ErrorSuffix(mapUriSuffix, v.name),
                                         try.message)
                  ELSE try.items),
              try.calls)

\* RenderablePaths.renderList, RenderableComponents.renderList and
\* RenderableDocument.renderTopLevelFieldDetail
TopLevelRender(spec, field) ==
  IF field = <<"paths">>
    THEN << [ uriSuffix |-> <<"paths">>,
              data |-> Join([i \in DOMAIN spec.paths |-> spec.paths[i].path],
                            <<"\n">>),
              isError |-> FALSE, errorText |-> <<>>, renderAsList |-> TRUE ] >>
  ELSE IF field = <<"components">>
    THEN IF spec.hasComponents /\ Types(spec) # <<>>
           THEN << [ uriSuffix |-> <<"components">>,
                     data |-> Join(Types(spec), <<"\n">>),
                     isError |-> FALSE, errorText |-> <<>>,
                     renderAsList |-> TRUE ] >>
           ELSE createErrorResult(<<"components">>,
                  <<"No components found in the specification.">>)
  ELSE IF field = <<"info">>
    THEN << [ uriSuffix |-> field,
              data |-> <<"info:">> \o spec.title,
              isError |-> FALSE, errorText |-> <<>>, renderAsList |-> FALSE ] >>
  ELSE createErrorResult(field,
         <<"Error: Field \"">> \o field
           \o <<"\" not found in the OpenAPI document.">>)

\* a variant of TopLevelFieldHandler.handleRequest without the branches for
\* 'paths' and 'components': both are rendered as the raw value of the field
TopLevelFieldHandleRequest_NoLists(reg, v) ==
  LET r == ResolveSpec(reg, v.specId)
  IN Returned(formatResults(v.specId,
                IF r.thrown
                  THEN createErrorResult(v.field, r.message)
                ELSE IF v.field \in {<<"paths">>, <<"components">>}
                  THEN << [ uriSuffix |-> v.field, data |-> v.field,
                            isError |-> FALSE, errorText |-> <<>>,
                            renderAsList |-> FALSE ] >>
                ELSE TopLevelRender(r.spec, v.field)),
              r.calls)

\* TopLevelFieldHandler.handleRequest (src/unnamed/part_002)
TopLevelFieldHandleRequest(reg, v) ==
  LET r == ResolveSpec(reg, v.specId)
  IN Returned(formatResults(v.specId,
                IF r.thrown
                  THEN createErrorResult(v.field, r.message)
                  ELSE TopLevelRender(r.spec, v.field)),
              r.calls)

\* the lines SpecsListHandler writes for one LoadedSpec
SpecLines(spec) ==
  <<"## ">> \o spec.slug \o <<"\n", "Title: ">> \o spec.title
    \o (IF spec.description # <<>>
          THEN <<"\n", "Description: ">>
                 \o (IF Len(spec.description) > 200
                       THEN SubSeq(spec.description, 1, 200) \o <<"...">>
                       ELSE spec.description)
          ELSE <<>>)
    \o (IF spec.version # <<>>
          THEN <<"\n", "Version: ">> \o spec.version
          ELSE <<>>)
    \o <<"\n", "Paths: ", ToString(spec.pathCount), " endpoints">>

\* SpecsListHandler.handleRequest: one text/plain item (it has no isError
\* field, which reads as false)
SpecsListHandleRequest(reg) ==
  Returned(<< [ uri |-> BASE_URI \o <<"specs">>,
                mimeType |-> "text/plain",
                text |-> Join([i \in DOMAIN getAllSpecs(reg) |->
                                 SpecLines(getAllSpecs(reg)[i])],
                              <<"\n", "\n">>),
                isError |-> FALSE ] >>,
           <<"getAllSpecs">>)

----------------------------------------------------------------------------
(* Completion, the complete callbacks of the resource templates in main    *)

\* getSpecPaths (main, lines 141-153): any failure gives no candidate
getSpecPaths(reg, specId) ==
  LET l == getLoader(reg, specId)
      spec == TransformedSpec(l.loader.filePath)
      encoded == [i \in DOMAIN spec.paths |->
                    encodeUriPathComponent(spec.paths[i].path)]
  IN IF l.thrown \/ TransformFails(l.loader.filePath) THEN <<>>
     ELSE IF \E i \in DOMAIN encoded : encoded[i].thrown THEN <<>>
     ELSE [i \in DOMAIN encoded |-> encoded[i].value]

\* getSpecComponentTypes (main, lines 156-171)
getSpecComponentTypes(reg, specId) ==
  LET l == getLoader(reg, specId)
      spec == TransformedSpec(l.loader.filePath)
  IN IF l.thrown \/ TransformFails(l.loader.filePath) THEN <<>>
     ELSE IF isOpenAPIV3(spec) /\ spec.hasComponents THEN Types(spec)
     ELSE <<>>

\* complete.specId: the slugs main read after the load
CompleteSpecId(slugs) == slugs

\* complete.field
CompleteField ==
  << <<"info">>, <<"servers">>, <<"paths">>, <<"components">>, <<"tags">>,
     <<"externalDocs">> >>

\* complete.path
CompletePath(reg, slugs) ==
  IF Len(slugs) > 0 THEN getSpecPaths(reg, slugs[1]) ELSE <<>>

\* complete.method
CompleteMethod ==
  << <<"G","E","T">>, <<"P","O","S","T">>, <<"P","U","T">>,
     <<"D","E","L","E","T","E">>, <<"P","A","T","C","H">>,
     <<"O","P","T","I","O","N","S">>, <<"H","E","A","D">>,
     <<"T","R","A","C","E">> >>

\* complete.type
CompleteType(reg, slugs) ==
  IF Len(slugs) > 0 THEN getSpecComponentTypes(reg, slugs[1]) ELSE <<>>

\* a variant of complete.name that reads the first spec however many specs
\* are registered
CompleteName_AnyRegistry(reg, slugs) ==
  LET l == getLoader(reg, slugs[1])
      spec == TransformedSpec(l.loader.filePath)
      types == Types(spec)
      componentMap == getValidatedComponentMap(spec, types[1])
  IN IF Len(slugs) = 0 THEN <<>>
     ELSE IF l.thrown \/ TransformFails(l.loader.filePath) THEN <<>>
     ELSE IF ~(isOpenAPIV3(spec) /\ spec.hasComponents) THEN <<>>
     ELSE IF Len(types) # 1 THEN <<>>
     ELSE IF componentMap.thrown THEN <<>>
     ELSE Names(componentMap.value)

\* complete.name (main, lines 289-311)
CompleteName(reg, slugs) ==
  LET l == getLoader(reg, slugs[1])
      spec == TransformedSpec(l.loader.filePath)
      types == Types(spec)
      componentMap == getValidatedComponentMap(spec, types[1])
  IN IF Len(slugs) # 1 THEN <<>>
     ELSE IF l.thrown \/ TransformFails(l.loader.filePath) THEN <<>>
     ELSE IF ~(isOpenAPIV3(spec) /\ spec.hasComponents) THEN <<>>
     ELSE IF Len(types) # 1 THEN <<>>
     ELSE IF componentMap.thrown THEN <<>>
     ELSE Names(componentMap.value)

\* the variables each resource template completes
CompletionVariables ==
  { <<"field", "specId">>, <<"field", "field">>,
    <<"pathItem", "specId">>, <<"pathItem", "path">>,
    <<"operation", "specId">>, <<"operation", "path">>,
    <<"operation", "method">>,
    <<"componentMap", "specId">>, <<"componentMap", "type">>,
    <<"componentDetail", "specId">>, <<"componentDetail", "type">>,
    <<"componentDetail", "name">> }

\* the candidates of a variable; the callbacks read neither the typed value
\* nor the variables that are already bound
Complete(reg, slugs, variable) ==
  CASE variable = "specId" -> CompleteSpecId(slugs)
    [] variable = "field" -> CompleteField
    [] variable = "path" -> CompletePath(reg, slugs)
    [] variable = "method" -> CompleteMethod
    [] variable = "type" -> CompleteType(reg, slugs)
    [] OTHER -> CompleteName(reg, slugs)

----------------------------------------------------------------------------
(* loadConfig, src/config.ts *)

\* loadConfig called without a list of paths
UndefinedPaths == << <<"undefined">> >>

\* the options argument: absent, or an object whose outputFormat is absent
\* or a string
NoOptions == [present |-> FALSE, hasFormat |-> FALSE, outputFormat |-> <<>>]
EmptyOptions == [present |-> TRUE, hasFormat |-> FALSE, outputFormat |-> <<>>]
WithFormat(f) == [present |-> TRUE, hasFormat |-> TRUE, outputFormat |-> f]

FormatJson == <<"j","s","o","n">>
FormatYaml == <<"y","a","m","l">>
FormatJsonMinified == <<"j","s","o","n","-","m","i","n","i","f","i","e","d">>

PathRequiredMessage ==
  << "At least one OpenAPI spec path is required",
     ". Usage: npx mcp-openapi-schema-explorer <spec1> [spec2...] [--output-format json|yaml]" >>

InvalidFormatMessage ==
  << "Invalid output format", ". Supported formats: json, yaml, json-minified" >>

NoConfig == [thrown |-> FALSE, message |-> <<>>, specPaths |-> <<>>,
             outputFormat |-> <<>>, loaded |-> FALSE]

\* a variant of loadConfig that accepts every output format
loadConfig_AnyFormat(paths, opts) ==
  LET format == IF opts.present /\ opts.hasFormat /\ opts.outputFormat # <<>>
                  THEN opts.outputFormat
                  ELSE FormatJson
  IN IF paths = UndefinedPaths \/ Len(paths) = 0
       THEN [thrown |-> TRUE, message |-> PathRequiredMessage,
             specPaths |-> <<>>, outputFormat |-> <<>>, loaded |-> TRUE]
     ELSE [thrown |-> FALSE, message |-> <<>>, specPaths |-> paths,
           outputFormat |-> format, loaded |-> TRUE]

\* loadConfig (lines 16-35); options?.outputFormat || 'json' takes 'json'
\* for an absent and for an empty outputFormat
loadConfig(paths, opts) ==
  LET format == IF opts.present /\ opts.hasFormat /\ opts.outputFormat # <<>>
                  THEN opts.outputFormat
                  ELSE FormatJson
  IN IF paths = UndefinedPaths \/ Len(paths) = 0
       THEN [thrown |-> TRUE, message |-> PathRequiredMessage,
             specPaths |-> <<>>, outputFormat |-> <<>>, loaded |-> TRUE]
     ELSE IF format # FormatJson /\ format # FormatYaml
               /\ format # FormatJsonMinified
       THEN [thrown |-> TRUE, message |-> InvalidFormatMessage,
             specPaths |-> <<>>, outputFormat |-> <<>>, loaded |-> TRUE]
     ELSE [thrown |-> FALSE, message |-> <<>>, specPaths |-> paths,
           outputFormat |-> format, loaded |-> TRUE]

----------------------------------------------------------------------------
(* Startup: main (src/utils/glob-expand.ts, lines 78-103 and 322-337)      *)

NoRequest == [handler |-> "none"]
NoBuilt == [op |-> "none"]
NoResult == [thrown |-> FALSE, contents |-> <<>>, calls |-> <<>>]
NoError == <<>>

\* the slots in which handler calls run, and a slot with no call
Slots == 1..MaxCalls
IdleCall == [pc |-> "idle", reused |-> FALSE]
NoCalls == [s \in Slots |-> IdleCall]

\* sequences of length 0..n over S
SeqsUpTo(S, n) == UNION {[1..k -> S] : k \in 0..n}

Init ==
  /\ specPaths \in SeqsUpTo(Files, MaxSpecPaths)
  /\ idx = 0
  /\ specs = <<>>
  /\ status = "starting"
  /\ request = NoRequest
  /\ result = NoResult
  /\ upath = <<>>
  /\ umethod = <<>>
  /\ ubuilt = NoBuilt
  /\ options = EmptyOptions
  /\ config = NoConfig
  /\ specSlugs = <<>>
  /\ inflight = NoCalls
  /\ error = NoError

\* main, lines 79-99: loadConfig; when it throws, main's catch ends the
\* process
Start ==
  /\ status = "starting"
  /\ config' = loadConfig(specPaths, options)
  /\ status' = IF config'.thrown THEN "exited" ELSE "loading"
  /\ error' = IF config'.thrown THEN config'.message ELSE error
  /\ UNCHANGED <<specPaths, idx, specs, request, result, upath, umethod, ubuilt,
               options, specSlugs, inflight>>

\* one iteration of the loop of loadSpecs.  A rejected loader.loadSpec()
\* is not caught in loadSpecs: it rejects main's await, whose catch calls
\* process.exit(1).
LoadSpecsStep ==
  /\ status = "loading"
  /\ idx < Len(config.specPaths)
  /\ LET filePath == config.specPaths[idx + 1] IN
       IF LoadFails(filePath)
         THEN /\ status' = "exited"
              /\ error' = LoadErrorMessage
              /\ UNCHANGED <<idx, specs>>
         ELSE /\ specs' = RegisterSpec(specs, EntryFor(filePath, idx + 1))
              /\ idx' = idx + 1
              /\ UNCHANGED <<status, error>>
  /\ UNCHANGED <<specPaths, request, result, upath, umethod, ubuilt,
               options, config, specSlugs, inflight>>

\* the end of loadSpecs (lines 75-77) and the rest of main: the server
\* connects, or the error of an empty registry ends the process
LoadSpecsEnd ==
  /\ status = "loading"
  /\ idx = Len(config.specPaths)
  /\ status' = IF Len(specs) = 0 THEN "exited" ELSE "serving"
  /\ error' = IF Len(specs) = 0 THEN NoSpecsMessage ELSE error
  /\ specSlugs' = IF Len(specs) = 0 THEN specSlugs ELSE getSpecSlugs(specs)
  /\ UNCHANGED <<specPaths, idx, specs, request, result, upath, umethod, ubuilt,
               options, config, inflight>>

----------------------------------------------------------------------------
(* Requests *)

Nope == <<"n","o","p","e">>

\* the specIds requests name: every registered slug and an unknown one
RequestSpecIds == Range(getSpecSlugs(specs)) \cup {Nope}

\* the {path} variable as the client sends it
EncA == <<"a">>
EncSlashA == <<"%","2","F","a">>
EncAB == <<"a","%","2","F","%","7","B","b","%","7","D">>
EncX == <<"x">>
EncMalformed == <<"%">>
EncSurrogate == <<"a", LoneSurrogate>>

EncTwoSlashes == <<"%","2","F","%","2","F","a">>

EncodedPaths ==
  {EncA, EncSlashA, EncTwoSlashes, EncAB, EncX, EncMalformed, EncSurrogate, <<>>}

MethodTokens == { GET, <<"G","E","T">>, <<" ","P","O","S","T">>, PUT, <<" ">> }

NameTokens == { NameTask, <<"U","s","e","r"," ">>, <<"t","a","s","k">>, <<" ">> }

\* the values of an exploded variable: undefined, a string, an array
ListVars(tokens) ==
  {Undefined, Str(<<>>)}
    \cup {Str(t) : t \in tokens}
    \cup {Arr(a) : a \in SeqsUpTo(tokens, MaxList)}

ComponentTypes ==
  { <<"schemas">>, <<"examples">>, <<"securitySchemes">>, <<"invalidType">> }

Variables(handler, specId, path, method, type, name) ==
  [ handler |-> handler, specId |-> specId, path |-> path,
    method |-> method, type |-> type, name |-> name ]

\* a variant of Serve in which serving a request drops the first entry of
\* the registry
Serve_Evicting(v, r) ==
  /\ status = "serving"
  /\ request = NoRequest
  /\ request' = v
  /\ result' = r
  /\ specs' = Tail(specs)
  /\ UNCHANGED <<specPaths, idx, status, upath, umethod, ubuilt,
               options, config, specSlugs, inflight, error>>

\* the server takes a request when it is idle and runs its handler
Serve(v, r) ==
  /\ status = "serving"
  /\ request = NoRequest
  /\ request' = v
  /\ result' = r
  /\ UNCHANGED <<specPaths, idx, specs, status, upath, umethod, ubuilt,
               options, config, specSlugs, inflight, error>>

PathItemRequest(paths) ==
  \E specId \in RequestSpecIds, path \in paths :
    LET v == Variables("pathItem", specId, path, Undefined, <<>>, Undefined)
    IN Serve(v, PathItemHandleRequest(specs, v))

OperationRequest(paths, methodVars) ==
  \E specId \in RequestSpecIds, path \in paths, method \in methodVars :
    LET v == Variables("operation", specId, path, method, <<>>, Undefined)
    IN Serve(v, OperationHandleRequest(specs, v))

ComponentMapRequest(types) ==
  \E specId \in RequestSpecIds, type \in types :
    LET v == Variables("componentMap", specId, <<>>, Undefined, type, Undefined)
    IN Serve(v, ComponentMapHandleRequest(specs, v))

ComponentDetailRequest(types, nameVars) ==
  \E specId \in RequestSpecIds, type \in types, name \in nameVars :
    LET v == Variables("componentDetail", specId, <<>>, Undefined, type, name)
    IN Serve(v, ComponentDetailHandleRequest(specs, v))

\* the {field} values requests name
Fields ==
  { <<"info">>, <<"paths">>, <<"components">>, <<"nonexistent">>, <<"Info">> }

TopLevelFieldRequest(fields) ==
  \E specId \in RequestSpecIds, field \in fields :
    LET v == [handler |-> "field", specId |-> specId, field |-> field]
    IN Serve(v, TopLevelFieldHandleRequest(specs, v))

SpecsListRequest ==
  /\ status = "serving"
  /\ Serve([handler |-> "specsList"], SpecsListHandleRequest(specs))

\* a completion request for a variable of a template; the client may have
\* bound specId already
CompletionRequest ==
  \E tv \in CompletionVariables, bound \in BOOLEAN, specId \in RequestSpecIds :
    Serve([ handler |-> "complete", template |-> tv[1], variable |-> tv[2],
            bound |-> bound, specId |-> IF bound THEN specId ELSE <<>> ],
          [ thrown |-> FALSE, contents |-> <<>>, calls |-> <<>>,
            values |-> Complete(specs, specSlugs, tv[2]) ])

\* the response (the contents, or the error of a handler that threw) is
\* sent to the client and the server is idle again
Deliver ==
  /\ status = "serving"
  /\ request # NoRequest
  /\ request' = NoRequest
  /\ result' = NoResult
  /\ UNCHANGED <<specPaths, idx, specs, status, upath, umethod, ubuilt,
               options, config, specSlugs, inflight, error>>

\* a few requests of every kind, made after any startup load
FewPaths == {EncA, EncMalformed}
FewMethodVars == {Str(GET), Arr(<<GET, PUT>>), Arr(<<>>)}
FewTypes == {<<"schemas">>, <<"invalidType">>}
FewNameVars == {Str(NameTask), Arr(<<NameTask, NameUser>>), Undefined}
FewFields == {<<"info">>, <<"nonexistent">>}

Next ==
  \/ Start
  \/ LoadSpecsStep
  \/ LoadSpecsEnd
  \/ PathItemRequest(FewPaths)
  \/ OperationRequest(FewPaths, FewMethodVars)
  \/ ComponentMapRequest(FewTypes)
  \/ ComponentDetailRequest(FewTypes, FewNameVars)
  \/ TopLevelFieldRequest(FewFields)
  \/ SpecsListRequest
  \/ CompletionRequest
  \/ Deliver

Spec == Init /\ [][Next]_vars

----------------------------------------------------------------------------
(* The server after the startup load of five files, serving every request  *)
(* of the bounded request space                                            *)

ServedPaths == <<FileA, FileB, FileP, FileV2, FileE>>

\* the registry loadSpecs leaves after loading the first n of the paths
RECURSIVE Loaded(_, _)
Loaded(paths, n) ==
  IF n = 0 THEN <<>>
  ELSE RegisterSpec(Loaded(paths, n - 1), EntryFor(paths[n], n))

InitServe ==
  /\ specPaths = ServedPaths
  /\ idx = Len(ServedPaths)
  /\ specs = Loaded(ServedPaths, Len(ServedPaths))
  /\ status = "serving"
  /\ request = NoRequest
  /\ result = NoResult
  /\ upath = <<>>
  /\ umethod = <<>>
  /\ ubuilt = NoBuilt
  /\ options = EmptyOptions
  /\ config = loadConfig(ServedPaths, EmptyOptions)
  /\ specSlugs = getSpecSlugs(Loaded(ServedPaths, Len(ServedPaths)))
  /\ inflight = NoCalls
  /\ error = NoError

NextServe ==
  \/ PathItemRequest(EncodedPaths)
  \/ OperationRequest(EncodedPaths, ListVars(MethodTokens))
  \/ ComponentMapRequest(ComponentTypes)
  \/ ComponentDetailRequest(ComponentTypes, ListVars(NameTokens))
  \/ TopLevelFieldRequest(Fields)
  \/ SpecsListRequest
  \/ CompletionRequest
  \/ Deliver

SpecServe == InitServe /\ [][NextServe]_vars

----------------------------------------------------------------------------
(* Handler calls in progress at the same time.  A handler is an async      *)
(* function: it runs to its await of loader.getTransformedSpec(), other    *)
(* calls run while it waits, and it continues from its own variables.      *)

\* the handler a resource template is registered with (main, lines 173-320)
Dispatch(reg, v) ==
  CASE v.handler = "field" -> TopLevelFieldHandleRequest(reg, v)
    [] v.handler = "pathItem" -> PathItemHandleRequest(reg, v)
    [] v.handler = "operation" -> OperationHandleRequest(reg, v)
    [] v.handler = "componentMap" -> ComponentMapHandleRequest(reg, v)
    [] OTHER -> ComponentDetailHandleRequest(reg, v)

\* the handler call reaches its await
Awaits(reg, v) ==
  /\ ~Dispatch(reg, v).thrown
  /\ "getTransformedSpec" \in Range(Dispatch(reg, v).calls)

DemoApi == <<"d","e","m","o","-","a","p","i">>
Pets == <<"p","e","t","s">>

\* the requests made at the same time
ConcurrentRequests ==
  { Variables("pathItem", DemoApi, EncA, Undefined, <<>>, Undefined),
    Variables("pathItem", Nope, EncA, Undefined, <<>>, Undefined),
    Variables("pathItem", DemoApi, EncMalformed, Undefined, <<>>, Undefined),
    Variables("operation", DemoApi, EncA, Str(GET), <<>>, Undefined),
    Variables("componentDetail", DemoApi, <<>>, Undefined, <<"schemas">>,
              Str(NameTask)),
    [handler |-> "field", specId |-> Pets, field |-> <<"info">>] }

\* a variant of Begin in which the handler object keeps the variables of
\* the last call in a field that the waiting calls read
Begin_SharedVariables(slot, v) ==
  /\ status = "serving"
  /\ inflight[slot].pc = "idle"
  /\ inflight' =
       [s \in Slots |->
          IF s = slot
            THEN IF Awaits(specs, v)
                   THEN [pc |-> "awaiting", reused |-> inflight[s].reused,
                         v |-> v, variables |-> v]
                   ELSE [pc |-> "done", reused |-> inflight[s].reused,
                         v |-> v, overlapped |-> FALSE,
                         result |-> Dispatch(specs, v)]
          ELSE IF inflight[s].pc = "awaiting"
            THEN [inflight[s] EXCEPT !.variables = v]
          ELSE inflight[s]]
  /\ UNCHANGED <<specPaths, idx, specs, status, request, result, upath, umethod,
                 ubuilt, options, config, specSlugs, error>>

\* a handler is called: it runs to its await, or to its end when it fails
\* or throws before
Begin(slot, v) ==
  /\ status = "serving"
  /\ inflight[slot].pc = "idle"
  /\ inflight' =
       [inflight EXCEPT ![slot] =
          IF Awaits(specs, v)
            THEN [pc |-> "awaiting", reused |-> inflight[slot].reused,
                  v |-> v, variables |-> v]
            ELSE [pc |-> "done", reused |-> inflight[slot].reused,
                  v |-> v, overlapped |-> FALSE,
                  result |-> Dispatch(specs, v)]]
  /\ UNCHANGED <<specPaths, idx, specs, status, request, result, upath, umethod,
                 ubuilt, options, config, specSlugs, error>>

\* another call is waiting
OthersAwaiting(slot) ==
  \E t \in Slots \ {slot} : inflight[t].pc = "awaiting"

\* a variant of Resume in which the continuation reads the variables of
\* another waiting call when there is one
Resume_LastVariables(slot) ==
  /\ inflight[slot].pc = "awaiting"
  /\ LET read == IF OthersAwaiting(slot)
                   THEN inflight[CHOOSE t \in Slots \ {slot} :
                                   inflight[t].pc = "awaiting"].variables
                   ELSE inflight[slot].variables
     IN inflight' =
          [inflight EXCEPT ![slot] =
             [pc |-> "done", reused |-> inflight[slot].reused,
              v |-> inflight[slot].v, overlapped |-> OthersAwaiting(slot),
              result |-> Dispatch(specs, read)]]
  /\ UNCHANGED <<specPaths, idx, specs, status, request, result, upath, umethod,
                 ubuilt, options, config, specSlugs, error>>

\* the awaited document arrives and the handler runs to its end, from the
\* variables of its own call
Resume(slot) ==
  /\ inflight[slot].pc = "awaiting"
  /\ inflight' =
       [inflight EXCEPT ![slot] =
          [pc |-> "done", reused |-> inflight[slot].reused,
           v |-> inflight[slot].v, overlapped |-> OthersAwaiting(slot),
           result |-> Dispatch(specs, inflight[slot].variables)]]
  /\ UNCHANGED <<specPaths, idx, specs, status, request, result, upath, umethod,
                 ubuilt, options, config, specSlugs, error>>

\* the response of a finished call is sent and its slot is free again
Release(slot) ==
  /\ inflight[slot].pc = "done"
  /\ inflight' = [inflight EXCEPT ![slot] = [pc |-> "idle", reused |-> TRUE]]
  /\ UNCHANGED <<specPaths, idx, specs, status, request, result, upath, umethod,
                 ubuilt, options, config, specSlugs, error>>

NextConcurrent ==
  \/ \E slot \in Slots, v \in ConcurrentRequests : Begin(slot, v)
  \/ \E slot \in Slots : Resume(slot)
  \/ \E slot \in Slots : Release(slot)

SpecConcurrent == InitServe /\ [][NextConcurrent]_vars

----------------------------------------------------------------------------
(* loadConfig on its own: every list of paths and every options argument   *)

\* the outputFormat strings of the options
OutputFormats ==
  { <<>>, FormatJson, FormatYaml, FormatJsonMinified, <<"x","m","l">>,
    <<"J","S","O","N">> }

OptionValues == {NoOptions, EmptyOptions} \cup {WithFormat(f) : f \in OutputFormats}

InitConfig ==
  /\ specPaths \in SeqsUpTo(Files, MaxSpecPaths) \cup {UndefinedPaths}
  /\ options \in OptionValues
  /\ idx = 0
  /\ specs = <<>>
  /\ status = "starting"
  /\ request = NoRequest
  /\ result = NoResult
  /\ upath = <<>>
  /\ umethod = <<>>
  /\ ubuilt = NoBuilt
  /\ config = NoConfig
  /\ specSlugs = <<>>
  /\ inflight = NoCalls
  /\ error = NoError

NextConfig == Start

SpecConfig == InitConfig /\ [][NextConfig]_vars

----------------------------------------------------------------------------
(* The address model on its own: a path and a method go through the URI    *)
(* builders, and the built URI comes back through the resource template    *)
(* and the decoding of the handlers                                        *)

PathChars == {"/", "a", "{", "%", LoneSurrogate}

UriPaths == SeqsUpTo(PathChars, MaxPathLen)

UriMethods ==
  { GET, <<"G","E","T">>, <<"P","o","s","t">>, <<" ","g","e","t">>, <<>>,
    <<"g","e","t",",","p","u","t">> }

UriSpecIds == { <<"d","e","m","o","-","a","p","i">>, <<"p","e","t","s">> }

\* the match of a simple template variable: one or more characters, none of
\* them a slash or a comma
SimpleValue(seg) == seg # <<>> /\ "," \notin Range(seg)

\* the value of an exploded template variable: an array when the segment
\* holds a comma, else a string
ExplodedValue(seg) ==
  IF "," \in Range(seg) THEN Arr(Split(seg, ",")) ELSE Str(seg)

NoMatch == [matched |-> FALSE, specId |-> <<>>, path |-> <<>>, method |-> Undefined]

\* the segments of a URI after the scheme
Segments(uri) == Split(Tail(uri), "/")

\* the variables of openapi://{specId}/paths/{path}
MatchPathItemTemplate(uri) ==
  LET segs == Segments(uri)
  IN IF /\ uri # <<>>
        /\ <<Head(uri)>> = BASE_URI_SCHEME
        /\ Len(segs) = 3
        /\ SimpleValue(segs[1])
        /\ segs[2] = <<"paths">>
        /\ SimpleValue(segs[3])
       THEN [matched |-> TRUE, specId |-> segs[1], path |-> segs[3],
             method |-> Undefined]
       ELSE NoMatch

\* the variables of openapi://{specId}/paths/{path}/{method*}
MatchOperationTemplate(uri) ==
  LET segs == Segments(uri)
  IN IF /\ uri # <<>>
        /\ <<Head(uri)>> = BASE_URI_SCHEME
        /\ Len(segs) = 4
        /\ SimpleValue(segs[1])
        /\ segs[2] = <<"paths">>
        /\ SimpleValue(segs[3])
        /\ segs[4] # <<>>
       THEN [matched |-> TRUE, specId |-> segs[1], path |-> segs[3],
             method |-> ExplodedValue(segs[4])]
       ELSE NoMatch

\* what a request for the URI resolves: the template's variables as the
\* handler reads them (decodedPath, lookupPath, methods)
ParseRequest(match) ==
  LET decoded == decodeURIComponent(match.path)
  IN [ matched |-> match.matched,
       thrown |-> match.matched /\ decoded.thrown,
       specId |-> match.specId,
       lookupPath |-> LookupPath(decoded.value),
       methods |-> NormalizeMethods(match.method) ]

InitUri ==
  /\ specPaths = <<>>
  /\ idx = 0
  /\ specs = <<>>
  /\ status = "starting"
  /\ request = NoRequest
  /\ result = NoResult
  /\ upath \in UriPaths
  /\ umethod \in UriMethods
  /\ ubuilt = NoBuilt
  /\ options = EmptyOptions
  /\ config = NoConfig
  /\ specSlugs = <<>>
  /\ inflight = NoCalls
  /\ error = NoError

\* encodeUriPathComponent, and decodeURIComponent of what it returned
EncodeDecode ==
  /\ ubuilt = NoBuilt
  /\ LET encoded == encodeUriPathComponent(upath)
     IN ubuilt' = [ op |-> "roundtrip",
                    encoded |-> encoded,
                    decoded |-> decodeURIComponent(encoded.value) ]
  /\ UNCHANGED <<specPaths, idx, specs, status, request, result, upath, umethod,
               options, config, specSlugs, inflight, error>>

\* buildPathItemUri, and a request for the URI it returned
BuildPathItem ==
  /\ ubuilt = NoBuilt
  /\ \E specId \in UriSpecIds :
       LET uri == buildPathItemUri(specId, upath)
       IN ubuilt' = [ op |-> "pathItem",
                      specId |-> specId,
                      uri |-> uri,
                      parsed |-> ParseRequest(MatchPathItemTemplate(uri.value)) ]
  /\ UNCHANGED <<specPaths, idx, specs, status, request, result, upath, umethod,
               options, config, specSlugs, inflight, error>>

\* buildOperationUri, and a request for the URI it returned
BuildOperation ==
  /\ ubuilt = NoBuilt
  /\ \E specId \in UriSpecIds :
       LET uri == buildOperationUri(specId, upath, umethod)
       IN ubuilt' = [ op |-> "operation",
                      specId |-> specId,
                      uri |-> uri,
                      parsed |-> ParseRequest(MatchOperationTemplate(uri.value)) ]
  /\ UNCHANGED <<specPaths, idx, specs, status, request, result, upath, umethod,
               options, config, specSlugs, inflight, error>>

NextUri ==
  \/ EncodeDecode
  \/ BuildPathItem
  \/ BuildOperation

SpecUri == InitUri /\ [][NextUri]_vars

----------------------------------------------------------------------------
(* Properties of the startup load                                          *)

\* the slug loadSpecs derives for the i-th file path
SlugAt(i) == EntryFor(specPaths[i], i).slug

\* the i-th file path is in the registry
Registered(i) == \E k \in DOMAIN getAllSpecs(specs) : getAllSpecs(specs)[k].loader.n = i

\* the file paths loadSpecs has gone through
LoadedSoFar == 1..idx

\* C1: when two loaded documents produce the same slug, the registry holds
\* the entry of the first of them under that slug, and the later document
\* is absent from getAllSpecs().
C1_FirstLoadedWins ==
  \A i, j \in LoadedSoFar :
    (i < j /\ SlugAt(i) = SlugAt(j) /\ \A h \in 1..(i - 1) : SlugAt(h) # SlugAt(i))
      => /\ ~getLoader(specs, SlugAt(i)).thrown
         /\ getLoader(specs, SlugAt(i)).loader = [filePath |-> specPaths[i], n |-> i]
         /\ EntryFor(specPaths[i], i) \in Range(getAllSpecs(specs))
         /\ ~Registered(j)

\* C1: the load of two documents with the same slug and different content
\* has ended and the server is serving
C1_Witness ==
  /\ status = "serving"
  /\ Len(specPaths) = 2
  /\ SlugAt(1) = SlugAt(2)
  /\ specPaths[1] # specPaths[2]
  /\ Len(specs) = 1

\* C2: a document whose load fails is fatal only to itself: the process
\* keeps running when another document loads, and the documents listed
\* after the failing one are still loaded.
C2_LoadFailureIsLocal ==
  /\ status = "exited" => \A i \in DOMAIN specPaths : LoadFails(specPaths[i])
  /\ status = "serving" =>
       \A i \in DOMAIN specPaths :
         ~LoadFails(specPaths[i]) => Has(specs, SlugAt(i))

----------------------------------------------------------------------------
(* Properties of the requests                                              *)

Served == request # NoRequest

\* the request named a list of methods or names
IsListRequest == Served /\ request.handler \in {"operation", "componentDetail"}

IsPathRequest == Served /\ request.handler \in {"pathItem", "operation"}

IsComponentRequest ==
  Served /\ request.handler \in {"componentMap", "componentDetail"}

\* the items of the result that are errors
ErrorItems == {i \in DOMAIN result.contents : result.contents[i].isError}

RequestFailed == Served /\ (result.thrown \/ ErrorItems # {})

\* the list variable of the request
ListVar == IF request.handler = "operation" THEN request.method ELSE request.name

\* the elements of the list as the client gave them
Elements(var) ==
  IF var.kind = "array" THEN var.arr
  ELSE IF var.kind = "string" THEN <<var.str>>
  ELSE <<>>

IsBlank(e) == Range(e) \subseteq WhiteSpace

\* the document of the request, when the registry has it, its references
\* resolve and it is OpenAPI v3
DocumentResolves == Served /\ ~ResolveSpec(specs, request.specId).thrown

Document == ResolveSpec(specs, request.specId).spec

\* the path the request looks up, and its path item
RequestedPath == LookupPath(decodeURIComponent(request.path).value)

PathExists ==
  /\ IsPathRequest
  /\ ~decodeURIComponent(request.path).thrown
  /\ DocumentResolves
  /\ HasPath(Document, RequestedPath)

PathItemObject == getValidatedPathItem(Document, RequestedPath).value

\* the component map of the request
MapExists ==
  /\ IsComponentRequest
  /\ request.type \in VALID_COMPONENT_TYPES
  /\ DocumentResolves
  /\ ~getValidatedComponentMap(Document, request.type).thrown

MapObject == getValidatedComponentMap(Document, request.type).value

\* the requested element, cleaned as the handler of the request cleans it
Cleaned(e) ==
  IF request.handler = "operation" THEN ToLowerCase(Trim(e)) ELSE Trim(e)

\* the keys the document has at the place the request addresses
AvailableKeys ==
  IF request.handler = "operation"
    THEN Range(DeclaredMethods(PathItemObject))
    ELSE Range(Names(MapObject))

\* the requested elements that are keys of the document, in request order
ValidKeys ==
  LET cleaned == [i \in DOMAIN Elements(ListVar) |-> Cleaned(Elements(ListVar)[i])]
  IN SelectSeq(cleaned, LAMBDA k : k \in AvailableKeys)

\* the full URI of one key of the place the request addresses
SingleKeyUri(key) ==
  IF request.handler = "operation"
    THEN <<"openapi://">> \o request.specId \o <<"/", "paths", "/">>
           \o encodeURIComponent(StripLeadingSlashes(RequestedPath)).value
           \o <<"/">> \o key
    ELSE <<"openapi://">> \o request.specId \o <<"/", "components", "/">>
           \o request.type \o <<"/">> \o key

\* the URI of the request as the client wrote it, the list joined by commas
RequestUri ==
  IF request.handler = "operation"
    THEN <<"openapi://">> \o request.specId \o <<"/", "paths", "/">>
           \o request.path \o <<"/">> \o AsRequested(ListVar)
    ELSE <<"openapi://">> \o request.specId \o <<"/", "components", "/">>
           \o request.type \o <<"/">> \o AsRequested(ListVar)

\* C3: no failure is thrown out of handleRequest, whatever the request's
\* variables are (a path that is not valid percent-encoding included).
C3_NothingThrown == Served => ~result.thrown

\* C4: a component type outside the allow-list fails with 'Invalid
\* component type: <type>' as one error item, and neither getLoader nor
\* getTransformedSpec is called.
C4_InvalidTypeShortCircuits ==
  (IsComponentRequest /\ request.type \notin VALID_COMPONENT_TYPES)
    => /\ ~result.thrown
       /\ result.calls = <<>>
       /\ Len(result.contents) = 1
       /\ result.contents[1].isError
       /\ result.contents[1].text = <<"Invalid component type: ">> \o request.type

\* C4: a component-detail request names a registered document, a valid
\* name and a type outside the allow-list
C4_Witness ==
  /\ Served
  /\ request.handler = "componentDetail"
  /\ request.type \notin VALID_COMPONENT_TYPES
  /\ Has(specs, request.specId)
  /\ request.name = Str(NameTask)
  /\ result.calls = <<>>

\* C5: on an existing path, a request with at least one declared method
\* gives exactly the detail items of its declared methods, in request
\* order, and no error; a request whose methods are all undeclared gives
\* exactly one error item that lists the available methods.
C5_MethodPartition ==
  (PathExists /\ request.handler = "operation"
     /\ NormalizeMethods(request.method) # <<>>)
    => IF ValidKeys # <<>>
         THEN /\ Len(result.contents) = Len(ValidKeys)
              /\ ErrorItems = {}
              /\ \A i \in DOMAIN ValidKeys :
                   /\ result.contents[i].uri = SingleKeyUri(ValidKeys[i])
                   /\ result.contents[i].text
                        = Format(<<OperationOf(PathItemObject, ValidKeys[i])>>)
         ELSE /\ Len(result.contents) = 1
              /\ result.contents[1].isError
              /\ StartsWith(result.contents[1].text,
                            <<"None of the requested methods (">>)
              /\ EndsWith(result.contents[1].text,
                          <<"\". Available methods: ">>
                            \o Join(DeclaredMethods(PathItemObject), <<",", " ">>))

\* C5: a request for get and put on a path that declares get and post
\* returned the one detail item of get
C5_Witness ==
  /\ PathExists
  /\ request.handler = "operation"
  /\ request.method = Arr(<<GET, PUT>>)
  /\ Range(DeclaredMethods(PathItemObject)) = {GET, POST}
  /\ Len(result.contents) = 1
  /\ ErrorItems = {}

\* C6: a list request with several valid keys gives one detail item per
\* valid key, each with the full URI of that single key, and no item has
\* the comma-joined URI of the request.
C6_OneItemPerKey ==
  (IsListRequest /\ ~result.thrown /\ (PathExists \/ MapExists)
     /\ Len(ValidKeys) >= 2)
    => /\ Len(result.contents) = Len(ValidKeys)
       /\ \A i \in DOMAIN ValidKeys :
            /\ ~result.contents[i].isError
            /\ result.contents[i].mimeType = FormatterMimeType
            /\ result.contents[i].uri = SingleKeyUri(ValidKeys[i])
            /\ result.contents[i].uri # RequestUri

\* C6: a request for two different declared methods returned two items
C6_Witness ==
  /\ PathExists
  /\ request.handler = "operation"
  /\ Len(ValidKeys) = 2
  /\ ValidKeys[1] # ValidKeys[2]
  /\ Len(result.contents) = 2

\* the URI suffix of the request, the requested list appended as asked
RequestedSuffix ==
  LET base == IF IsPathRequest
                THEN <<"paths", "/">>
                       \o encodeURIComponent(StripLeadingSlashes(
                            decodeURIComponent(request.path).value)).value
                ELSE <<"components", "/">> \o request.type
  IN IF IsListRequest /\ ListVar.kind # "undefined"
       THEN base \o <<"/">> \o AsRequested(ListVar)
       ELSE base

\* C7: a failed request yields exactly one item: an error, text/plain,
\* with the message as its text, at the request's URI suffix with the
\* requested list appended as it was asked.
C7_OneErrorItem ==
  RequestFailed
    => /\ ~result.thrown
       /\ Len(result.contents) = 1
       /\ result.contents[1].isError
       /\ result.contents[1].mimeType = "text/plain"
       /\ result.contents[1].text # <<>>
       /\ result.contents[1].uri
            = <<"openapi://">> \o request.specId \o <<"/">> \o RequestedSuffix

EmptySelectorMessage ==
  IF request.handler = "operation"
    THEN <<"No valid HTTP method specified.">>
    ELSE <<"No valid component name specified.">>

ListIsProcessed ==
  /\ IsListRequest
  /\ ~result.thrown
  /\ request.handler = "componentDetail" => request.type \in VALID_COMPONENT_TYPES

\* C10: every element of the list is trimmed on its own (and lower-cased
\* for methods) and blank elements are dropped: a list of blank elements
\* only fails with the empty-selector message as one error item and
\* without a document fetch, and any other list resolves the cleaned
\* elements.
C10_ElementsCleaned ==
  ListIsProcessed
    => IF \A i \in DOMAIN Elements(ListVar) : IsBlank(Elements(ListVar)[i])
         THEN /\ Len(result.contents) = 1
              /\ result.contents[1].isError
              /\ result.contents[1].text = EmptySelectorMessage
              /\ result.calls = <<>>
         ELSE /\ \A i \in DOMAIN result.contents :
                   result.contents[i].text # EmptySelectorMessage
              /\ (PathExists \/ MapExists) =>
                   {result.contents[i].uri :
                      i \in DOMAIN result.contents \ ErrorItems}
                     = {SingleKeyUri(ValidKeys[i]) : i \in DOMAIN ValidKeys}

\* C10: a list with a padded upper-case method and a blank element
\* returned the item of the cleaned method
C10_Witness ==
  /\ PathExists
  /\ request.handler = "operation"
  /\ request.method = Arr(<<<<" ","P","O","S","T">>, <<" ">>>>)
  /\ Len(result.contents) = 1
  /\ result.contents[1].uri = SingleKeyUri(POST)

----------------------------------------------------------------------------
(* Properties of the address model                                         *)

\* the path with its leading slashes replaced by a single one
normalize(p) == <<"/">> \o StripLeadingSlashes(p)

RoundTripDone == ubuilt.op = "roundtrip"

\* C8, as the specification words it: decode(encode(p)) == normalize(p)
\* for every path p.
C8_DecodeEncodeIsNormalize ==
  RoundTripDone
    => /\ ~ubuilt.encoded.thrown
       /\ ~ubuilt.decoded.thrown
       /\ ubuilt.decoded.value = normalize(upath)

\* C8: for every path p that encodeURIComponent accepts, decode(encode(p))
\* is p without its leading slashes, and prefixed with a slash it is
\* normalize(p); encodeURIComponent rejects exactly the paths that hold a
\* lone surrogate after their leading slashes.
C8_RoundTrip ==
  RoundTripDone
    => /\ ubuilt.encoded.thrown
            <=> LoneSurrogate \in Range(StripLeadingSlashes(upath))
       /\ ~ubuilt.encoded.thrown
            => /\ ~ubuilt.decoded.thrown
               /\ ubuilt.decoded.value = StripLeadingSlashes(upath)
               /\ <<"/">> \o ubuilt.decoded.value = normalize(upath)
               /\ LookupPath(ubuilt.decoded.value) = normalize(upath)

\* C8: a path with a leading slash and a character that is percent-encoded
\* went through the round trip
C8_Witness ==
  /\ RoundTripDone
  /\ upath = <<"/", "a", "{">>
  /\ ubuilt.encoded.value = <<"a", "%", "7", "B">>
  /\ ubuilt.decoded.value = <<"a", "{">>

Built == ubuilt.op \in {"pathItem", "operation"}

\* C9: the URI built for a path (and a method) has the path
\* percent-encoded without leading slash and the method lower-cased, and a
\* request for it is parsed back to the same path with its leading slash
\* and the same method.
C9_BuildersInvertParsing ==
  (Built /\ ~ubuilt.uri.thrown)
    => /\ ubuilt.uri.value
            = <<"openapi://">> \o ubuilt.specId \o <<"/", "paths", "/">>
                \o encodeURIComponent(StripLeadingSlashes(upath)).value
                \o (IF ubuilt.op = "operation"
                      THEN <<"/">> \o ToLowerCase(umethod) ELSE <<>>)
       /\ ubuilt.parsed.matched
       /\ ~ubuilt.parsed.thrown
       /\ ubuilt.parsed.specId = ubuilt.specId
       /\ ubuilt.parsed.lookupPath = LookupPath(upath)
       /\ ubuilt.op = "operation"
            => ubuilt.parsed.methods = <<ToLowerCase(umethod)>>

----------------------------------------------------------------------------
(* Properties of the registry lookup                                       *)

\* the request is one of a resource handler that names a specId
IsResourceRequest ==
  Served /\ request.handler \in {"field", "pathItem", "operation",
                                 "componentMap", "componentDetail"}

\* the handler of the request gets as far as the registry lookup: nothing
\* before getLoader throws
ReachesLookup ==
  /\ IsResourceRequest
  /\ IsPathRequest =>
       /\ ~decodeURIComponent(request.path).thrown
       /\ ~buildPathItemUriSuffix(decodeURIComponent(request.path).value).thrown
  /\ IsComponentRequest => request.type \in VALID_COMPONENT_TYPES
  /\ IsListRequest =>
       \E i \in DOMAIN Elements(ListVar) : ~IsBlank(Elements(ListVar)[i])

\* the registered slugs in insertion order, comma-joined
RECURSIVE SlugList(_)
SlugList(n) ==
  IF n = 0 THEN <<>>
  ELSE IF n = 1 THEN specs[1].slug
  ELSE SlugList(n - 1) \o <<",", " ">> \o specs[n].slug

\* C11: the lookup of a slug the registry does not hold fails with the
\* not-found error that lists the registered slugs in insertion order; the
\* handler returns it as its single item, an error, and reads no document.
C11_UnknownSlug ==
  (ReachesLookup /\ \A i \in DOMAIN specs : specs[i].slug # request.specId)
    => /\ ~result.thrown
       /\ Len(result.contents) = 1
       /\ result.contents[1].isError
       /\ result.contents[1].text
            = <<"Spec \"">> \o request.specId \o <<"\" not found. Available: ">>
                \o SlugList(Len(specs))
       /\ result.calls = <<"getLoader">>

\* C11: a top-level field request named a slug that a registry of several
\* slugs does not hold
C11_Witness ==
  /\ Served
  /\ request.handler = "field"
  /\ request.specId = Nope
  /\ Len(specs) >= 2
  /\ result.calls = <<"getLoader">>
  /\ Len(result.contents) = 1

\* C12: the registry is write-once: once the startup load has finished, no
\* read request and no completion request changes the sequence of entries
\* or any field of an entry.
C12_RegistryWriteOnce == [][status = "serving" => specs' = specs]_vars

\* C12: the server holds two entries and has served a request that reads
\* all of them
C12_Witness ==
  /\ status = "serving"
  /\ Len(specs) = 2
  /\ Served
  /\ request.handler = "specsList"
  /\ Len(result.contents) = 1

----------------------------------------------------------------------------
(* Properties of the component handlers                                    *)

\* a component-list request for a valid type on a document that resolves
IsMapRequest ==
  /\ Served
  /\ request.handler = "componentMap"
  /\ request.type \in VALID_COMPONENT_TYPES
  /\ DocumentResolves

\* the keys of the document's components, in the document's order
ComponentKeys ==
  IF Document.hasComponents
    THEN [i \in DOMAIN Document.components |-> Document.components[i].type]
    ELSE <<>>

TypeNotFoundText ==
  <<"Component type \"">> \o request.type
    \o <<"\" not found in the specification. Available types: ">>
    \o Join(ComponentKeys, <<",", " ">>)

NoComponentsText ==
  <<"No components of type \"">> \o request.type \o <<"\" found.">>

\* C13: for a valid type, a document without a key for the type gives the
\* error 'Component type "<type>" not found in the specification.
\* Available types: ...' with the keys that are present, a key with an
\* empty map gives the error 'No components of type "<type>" found.', and
\* the two messages differ.
C13_TwoMessages ==
  IsMapRequest
    => /\ TypeNotFoundText # NoComponentsText
       /\ IF request.type \notin Range(ComponentKeys)
            THEN /\ Len(result.contents) = 1
                 /\ result.contents[1].isError
                 /\ result.contents[1].text = TypeNotFoundText
          ELSE IF MapObject = <<>>
            THEN /\ Len(result.contents) = 1
                 /\ result.contents[1].isError
                 /\ result.contents[1].text = NoComponentsText
          ELSE /\ ErrorItems = {}
               /\ \A i \in DOMAIN result.contents :
                    result.contents[i].text
                      \notin {TypeNotFoundText, NoComponentsText}

\* C13: a request for a type whose key exists with an empty map, on a
\* document that has other types too
C13_Witness ==
  /\ IsMapRequest
  /\ request.type \in Range(ComponentKeys)
  /\ Len(ComponentKeys) >= 2
  /\ MapObject = <<>>
  /\ result.contents[1].text = NoComponentsText

----------------------------------------------------------------------------
(* Properties of the method listing and of the method errors               *)

\* the canonical method set in its canonical order
CanonicalOrder ==
  << <<"g","e","t">>, <<"p","o","s","t">>, <<"p","u","t">>,
     <<"d","e","l","e","t","e">>, <<"p","a","t","c","h">>,
     <<"o","p","t","i","o","n","s">>, <<"h","e","a","d">>,
     <<"t","r","a","c","e">> >>

\* the keys of the requested path item, as a set
PathItemKeys == {PathItemObject[i].key : i \in DOMAIN PathItemObject}

\* the canonical methods that are keys of the requested path item, in
\* canonical order
CanonicalDeclared == SelectSeq(CanonicalOrder, LAMBDA m : m \in PathItemKeys)

AvailableMethodsText ==
  <<"\". Available methods: ">> \o Join(CanonicalDeclared, <<",", " ">>)

\* C14: the declared methods of a path item are its keys that are canonical
\* methods, in canonical order and not in insertion order, in the method
\* listing and in the 'Available methods' part of the error; other keys
\* are ignored.
C14_CanonicalOrder ==
  /\ (PathExists /\ request.handler = "pathItem")
       => /\ Len(result.contents) = 1
          /\ ~result.contents[1].isError
          /\ CanonicalDeclared # <<>>
               => result.contents[1].text = Join(CanonicalDeclared, <<"\n">>)
  /\ (PathExists /\ request.handler = "operation"
        /\ NormalizeMethods(request.method) # <<>> /\ ValidKeys = <<>>)
       => /\ Len(result.contents) = 1
          /\ EndsWith(result.contents[1].text, AvailableMethodsText)

\* C14: the listing of a path item whose keys were inserted post before get
C14_Witness ==
  /\ PathExists
  /\ request.handler = "pathItem"
  /\ PathItemObject[1].key = POST
  /\ PathItemObject[2].key = GET
  /\ result.contents[1].text = <<"g","e","t","\n","p","o","s","t">>

\* the elements of the requested list that are not blank, cleaned, in the
\* order of the request
RequestedInOrder ==
  LET kept == SelectSeq(Elements(ListVar), LAMBDA e : ~IsBlank(e))
  IN [i \in DOMAIN kept |-> Cleaned(kept[i])]

\* an operation request on an existing path none of whose methods is
\* declared
NoMethodDeclared ==
  /\ PathExists
  /\ request.handler = "operation"
  /\ RequestedInOrder # <<>>
  /\ \A i \in DOMAIN RequestedInOrder : RequestedInOrder[i] \notin PathItemKeys

\* C15: when no requested method is declared, the error message is 'None
\* of the requested methods (<requested>) are valid for path "<path>".
\* Available methods: <available>', the requested methods in the order of
\* the request and the available ones in canonical order, each joined by
\* ', '.
C15_RequestedInOrder ==
  NoMethodDeclared
    => /\ Len(result.contents) = 1
       /\ result.contents[1].isError
       /\ result.contents[1].text
            = <<"None of the requested methods (">>
                \o Join(RequestedInOrder, <<",", " ">>)
                \o <<") are valid for path \"">> \o RequestedPath
                \o AvailableMethodsText

\* C15: put and post, in this order, were requested on a path that
\* declares neither
C15_Witness ==
  /\ NoMethodDeclared
  /\ RequestedInOrder = <<PUT, POST>>
  /\ CanonicalDeclared = <<GET>>
  /\ Len(result.contents) = 1

\* a component-detail request with a name that is not blank, for a valid
\* type whose map is not empty
IsDetailRequest ==
  /\ MapExists
  /\ request.handler = "componentDetail"
  /\ MapObject # <<>>
  /\ RequestedInOrder # <<>>

\* the keys of the requested component map, in the map's order
MapKeys == [i \in DOMAIN MapObject |-> MapObject[i].name]

\* the entry of the requested map under a key
MapEntry(name) == MapObject[CHOOSE i \in DOMAIN MapObject : MapObject[i].name = name].obj

\* the requested names that are keys of the map, in the order of the request
RequestedKeys == SelectSeq(RequestedInOrder, LAMBDA n : n \in Range(MapKeys))

\* C16: the requested names are partitioned against the keys of the
\* component map: each requested name that is a key yields its map entry
\* as a detail item, and when none is a key the result is the one error
\* 'None of the requested names (...) are valid for component type
\* "<type>". Available names: ...' with the names in the map's key order.
C16_NamePartition ==
  IsDetailRequest
    => IF RequestedKeys # <<>>
         THEN /\ Len(result.contents) = Len(RequestedKeys)
              /\ \A i \in DOMAIN RequestedKeys :
                   /\ ~result.contents[i].isError
                   /\ result.contents[i].text = Format(<<MapEntry(RequestedKeys[i])>>)
                   /\ result.contents[i].uri
                        = <<"openapi://">> \o request.specId
                            \o <<"/", "components", "/">> \o request.type
                            \o <<"/">> \o RequestedKeys[i]
         ELSE /\ Len(result.contents) = 1
              /\ result.contents[1].isError
              /\ result.contents[1].text
                   = <<"None of the requested names (">>
                       \o Join(RequestedInOrder, <<",", " ">>)
                       \o <<") are valid for component type \"">> \o request.type
                       \o <<"\". Available names: ">>
                       \o Join(MapKeys, <<",", " ">>)

\* C16: of two requested names one is a key of a map with two keys
C16_Witness ==
  /\ IsDetailRequest
  /\ Len(RequestedInOrder) = 2
  /\ RequestedKeys = <<NameTask>>
  /\ Len(MapKeys) = 2
  /\ Len(result.contents) = 1

\* a completion request for a variable, served from a registry in which the
\* bound specId (when one is bound) is registered
IsCompletion(variable) ==
  /\ status = "serving"
  /\ request.handler = "complete"
  /\ request.variable = variable
  /\ specs # <<>>
  /\ request.bound => Has(specs, request.specId)

\* the spec a completion request is bound to: the one its specId names, or
\* the first registered spec when no specId is bound
BoundSpecId == IF request.bound THEN request.specId ELSE specs[1].slug

BoundFile == getLoader(specs, BoundSpecId).loader.filePath

\* the document of the bound spec loads and is an OpenAPI v3 document
BoundLoads ==
  /\ ~TransformFails(BoundFile)
  /\ isOpenAPIV3(TransformedSpec(BoundFile))

BoundDocument == TransformedSpec(BoundFile)

\* the component categories of the bound spec whose map is not empty
NonEmptyCategories ==
  IF BoundDocument.hasComponents
    THEN SelectSeq(BoundDocument.components, LAMBDA c : c.map # <<>>)
    ELSE <<>>

\* C17: name completion is every name of the one non-empty component
\* category of the bound spec, and the empty sequence when the bound spec
\* has no or several non-empty categories.
C17_NameCompletion ==
  (IsCompletion("name") /\ BoundLoads)
    => result.values = IF Len(NonEmptyCategories) = 1
                         THEN Names(NonEmptyCategories[1].map)
                         ELSE <<>>

\* C18: type completion is exactly the component categories that are
\* present and not empty in the bound spec.
C18_TypeCompletion ==
  (IsCompletion("type") /\ BoundLoads)
    => result.values = [i \in DOMAIN NonEmptyCategories |->
                          NonEmptyCategories[i].type]

\* the declared paths of the bound spec, each encoded
BoundPathsEncoded ==
  [i \in DOMAIN BoundDocument.paths |->
     encodeUriPathComponent(BoundDocument.paths[i].path).value]

\* C19: path completion is the encoded declared paths of the spec the
\* specId variable binds, or of the first registered spec when none is
\* bound.
C19_PathCompletion ==
  (IsCompletion("path") /\ ~TransformFails(BoundFile))
    => result.values = BoundPathsEncoded

\* the decoded paths an operation request can ask for
DeclaredSomewhere == {PathA, PathAB, PathB}

\* C20: method completion is the eight canonical methods in canonical
\* order whatever the registry holds, and the operation handler resolves
\* each candidate as the method it names.
C20_MethodCompletion ==
  (status = "serving" /\ request.handler = "complete"
     /\ request.variable = "method")
    => /\ Len(result.values) = Len(CanonicalOrder)
       /\ \A i \in DOMAIN result.values :
            /\ ToLowerCase(result.values[i]) = CanonicalOrder[i]
            /\ NormalizeMethods(Str(result.values[i])) = <<CanonicalOrder[i]>>
            /\ \A k \in DOMAIN specs, path \in DeclaredSomewhere :
                 OperationTry(specs, specs[k].slug, path, Str(result.values[i]))
                   = OperationTry(specs, specs[k].slug, path, Str(CanonicalOrder[i]))

\* C20: the methods are completed with two specs registered, and the first
\* candidate resolves to an operation the first spec declares
C20_Witness ==
  /\ status = "serving"
  /\ request.handler = "complete"
  /\ request.variable = "method"
  /\ Len(specs) = 2
  /\ Len(result.values) = 8
  /\ ~OperationTry(specs, specs[1].slug, PathA, Str(result.values[1])).thrown

\* the options carry no output format
FormatAbsent == ~options.present \/ ~options.hasFormat

\* the list of paths is given and not empty
PathsGiven == specPaths # UndefinedPaths /\ Len(specPaths) > 0

WellFormedSlug(slug) ==
  /\ Len(slug) > 0
  /\ \A i \in DOMAIN slug : slug[i] \in Range(LowerCase) \cup Digits \cup {"-"}
  /\ slug[1] # "-"
  /\ slug[Len(slug)] # "-"
  /\ \A i \in 1..(Len(slug) - 1) : ~(slug[i] = "-" /\ slug[i + 1] = "-")

\* C24: every slug under which a document is registered is a non-empty
\* string of lower-case letters, digits and single hyphens, with no hyphen
\* at either end.
C24_SlugShape ==
  \A i \in DOMAIN getAllSpecs(specs) : WellFormedSlug(getAllSpecs(specs)[i].slug)

\* loadSpecs was called and has ended, by returning or by an error
LoadEnded == status = "serving" \/ (status = "exited" /\ ~config.thrown)

\* C29: loadSpecs ends with 'No specs were loaded successfully.' exactly
\* when the registry is empty at the end of the load; after a load that
\* returns normally the registry holds between one entry and as many
\* entries as paths were given, and the lookup of the first slug finds a
\* spec.
C29_LoadOutcome ==
  /\ LoadEnded => ((error = NoSpecsMessage) <=> (Len(specs) = 0))
  /\ status = "serving"
       => /\ Len(specs) >= 1
          /\ Len(specs) <= Len(specPaths)
          /\ ~getLoader(specs, specSlugs[1]).thrown

\* C30: with more than one spec registered the completion of a name is
\* empty whatever specId is bound, and the slugs the completion callbacks
\* use are those of the registry as the startup load left it.
C30_NameCompletionSuppressed ==
  (status = "serving" /\ request.handler = "complete")
    => /\ (request.variable = "name" /\ Len(specs) > 1) => result.values = <<>>
       /\ specSlugs = [i \in 1..Len(specs) |-> specs[i].slug]
       /\ request.variable = "specId" => result.values = specSlugs

\* C30: names are completed with two specs registered, the first of which
\* has a single component category that is not empty
C30_Witness ==
  /\ status = "serving"
  /\ request.handler = "complete"
  /\ request.variable = "name"
  /\ request.bound
  /\ Len(specs) = 2
  /\ Len(NonEmptyCategories) = 1
  /\ Len(Types(TransformedSpec(specs[1].loader.filePath))) = 1
  /\ result.values = <<>>

\* a top-level field request on a document that is registered, resolves
\* and is OpenAPI v3
IsFieldRequest ==
  /\ Served
  /\ request.handler = "field"
  /\ DocumentResolves

\* the top-level keys of a document other than paths and components
DocumentFields == {<<"info">>}

ItemPathSegment(i) == Segments(result.contents[i].uri)[3]

\* C27: for every path request, decoding the path segment of the URI of a
\* returned item and prefixing one slash gives the path that was looked up
\* in the document.
C27_SamePath ==
  (IsPathRequest /\ ~result.thrown)
    => \A i \in DOMAIN result.contents :
         /\ ~decodeURIComponent(ItemPathSegment(i)).thrown
         /\ <<"/">> \o decodeURIComponent(ItemPathSegment(i)).value = RequestedPath

\* the request reads a single-valued address: a field, a path, a component
\* type, or a path with one method or a type with one name
IsSingleValued ==
  /\ Served
  /\ \/ request.handler \in {"field", "pathItem", "componentMap"}
     \/ /\ IsListRequest
        /\ ListVar.kind = "string"
        /\ ListVar.str # <<>>

\* the URI the client asked for
RequestedAddress ==
  CASE request.handler = "field"
         -> <<"openapi://">> \o request.specId \o <<"/">> \o request.field
    [] request.handler = "pathItem"
         -> <<"openapi://">> \o request.specId \o <<"/", "paths", "/">>
              \o request.path
    [] request.handler = "componentMap"
         -> <<"openapi://">> \o request.specId \o <<"/", "components", "/">>
              \o request.type
    [] OTHER -> RequestUri

\* C25: reading a single-valued address returns exactly one content item,
\* whether it succeeds or fails, and the uri of the item is the requested
\* URI.
C25_OneItemAtRequestUri ==
  IsSingleValued
    => /\ ~result.thrown
       /\ Len(result.contents) = 1
       /\ result.contents[1].uri = RequestedAddress

\* the request got as far as the try block of its handler and returned
InTryBlock == Served /\ ~result.thrown

\* the result is one error item whose message begins with the given words
\* and the handler made exactly the given calls
FailsWith(words, calls) ==
  /\ Len(result.contents) = 1
  /\ result.contents[1].isError
  /\ result.contents[1].text[1] = words
  /\ result.calls = calls

\* the file of the spec the request names
RequestedFile == getLoader(specs, request.specId).loader.filePath

\* the checks of an operation request, in their order
OperationChecks ==
  IF NormalizeMethods(request.method) = <<>>
    THEN FailsWith("No valid HTTP method specified.", <<>>)
  ELSE IF ~Has(specs, request.specId)
    THEN FailsWith("Spec \"", <<"getLoader">>)
  ELSE IF TransformFails(RequestedFile)
    THEN FailsWith("Spec load failed", <<"getLoader", "getTransformedSpec">>)
  ELSE IF ~isOpenAPIV3(TransformedSpec(RequestedFile))
    THEN FailsWith("Only OpenAPI v3 specifications are supported",
                   <<"getLoader", "getTransformedSpec">>)
  ELSE IF ~HasPath(Document, RequestedPath)
    THEN FailsWith("Path \"", <<"getLoader", "getTransformedSpec">>)
  ELSE IF ValidKeys = <<>>
    THEN FailsWith("None of the requested methods (",
                   <<"getLoader", "getTransformedSpec">>)
  ELSE ErrorItems = {}

\* the first checks of a component-detail request, in their order
ComponentDetailChecks ==
  IF request.type \notin VALID_COMPONENT_TYPES
    THEN FailsWith("Invalid component type: ", <<>>)
  ELSE IF NormalizeNames(request.name) = <<>>
    THEN FailsWith("No valid component name specified.", <<>>)
  ELSE IF ~Has(specs, request.specId)
    THEN FailsWith("Spec \"", <<"getLoader">>)
  ELSE result.calls # <<>>

\* C28: the checks of a request run in a fixed order and the first that
\* fails decides the error: for an operation the empty-method check, the
\* registry lookup, the OpenAPI v3 check, the path lookup, the method
\* partition; for a component detail the allow-list of types, the
\* empty-name check, the registry lookup.
C28_CheckOrder ==
  InTryBlock
    => /\ request.handler = "operation" => OperationChecks
       /\ request.handler = "componentDetail" => ComponentDetailChecks

\* C28: an operation request named no method and an unknown specId
C28_Witness ==
  /\ InTryBlock
  /\ request.handler = "operation"
  /\ NormalizeMethods(request.method) = <<>>
  /\ request.specId = Nope
  /\ FailsWith("No valid HTTP method specified.", <<>>)

\* the calls that have returned or thrown
Finished == {s \in Slots : inflight[s].pc = "done"}

====
